---- MODULE Spec2Model ----
(***************************************************************************)
(* Model of the secure-channel envelope: Ristretto group arithmetic,       *)
(* ElGamal key transport, AES-256-GCM, the hybrid cipher and its wire      *)
(* format, Schnorr signatures, the JSON/base64 text format, and the        *)
(* Message state machine (encrypt / decrypt / sign / verify).              *)
(*                                                                         *)
(* Abstractions of the external crates:                                    *)
(*  - the Ristretto group is the cyclic group of prime order Q; a point    *)
(*    k*Base is represented by k, the base point by 1, the identity by 0;  *)
(*  - a compressed point is the 32-byte little-endian encoding of 2k;      *)
(*    odd values, values of 2Q or more and encodings with a non-zero high  *)
(*    byte do not decompress; the identity compresses to 32 zero bytes;    *)
(*  - a scalar is encoded as 32 little-endian bytes; 32-byte values of Q   *)
(*    or more are the non-canonical encodings;                             *)
(*  - SHA-512 followed by Scalar::from_hash is a position-weighted sum of  *)
(*    the input reduced modulo Q: it separates any two inputs that differ  *)
(*    in one byte and any two distinct compressed points;                  *)
(*  - AES-256-GCM is an additive stream cipher with a 16-byte tag that is  *)
(*    a keyed checksum of key, nonce and ciphertext.                       *)
(***************************************************************************)
EXTENDS Integers, Sequences, FiniteSets, Bags, TLC

\* ------------------------------------------------------------------------
\* Sizes
\* ------------------------------------------------------------------------

\* [u8; 32]: compressed points, scalars, sender, recipient
POINT_SIZE == 32

SCALAR_SIZE == 32

AES_KEY_SIZE == 32

AES_NONCE_SIZE == 12

\* length of the AES-GCM authentication tag appended to the ciphertext
AES_TAG_SIZE == 16

\* u8 version: values 0..255
U8_MODULUS == 256

\* ------------------------------------------------------------------------
\* Results, and values computed once
\* ------------------------------------------------------------------------

Ok(v) == [ok |-> TRUE, val |-> v]

Err(e) == [ok |-> FALSE, err |-> e]

\* F applied to the value of v: `let x = v;` followed by F(x)
Let1(v, F(_)) == CHOOSE y \in {F(x) : x \in {v}} : TRUE

Let2(v, w, F(_, _)) == CHOOSE y \in {F(x1, x2) : x1 \in {v}, x2 \in {w}} : TRUE

Let3(u, v, w, F(_, _, _)) ==
  CHOOSE y \in {F(x1, x2, x3) : x1 \in {u}, x2 \in {v}, x3 \in {w}} : TRUE

\* ------------------------------------------------------------------------
\* The group of prime order Q (curve25519_dalek Scalar / RistrettoPoint)
\* ------------------------------------------------------------------------

Q == 257

Scalars == 0..(Q - 1)

Points == 0..(Q - 1)

RISTRETTO_BASEPOINT_POINT == 1

IdentityPoint == 0

ScalarZero == 0

ScalarAdd(a, b) == (a + b) % Q

ScalarSub(a, b) == (a - b + Q) % Q

ScalarMulScalar(a, b) == (a * b) % Q

\* s * P
PointMul(s, P) == (s * P) % Q

PointAdd(P1, P2) == (P1 + P2) % Q

\* ------------------------------------------------------------------------
\* Bytes
\* ------------------------------------------------------------------------

Byte == 0..255

Zeros(n) == [i \in 1..n |-> 0]

\* little-endian bytes of a value below 2^24, padded with zeros to n bytes
LEBytes(v, n) ==
  Let1(v, LAMBDA x :
    [i \in 1..n |-> IF i = 1 THEN x % 256
                    ELSE IF i = 2 THEN (x \div 256) % 256
                    ELSE IF i = 3 THEN (x \div 65536) % 256
                    ELSE 0])

\* sum of the numbers f[i] of a sequence of naturals: the size of the bag that
\* holds i exactly f[i] times
Sum(f) ==
  Let1(f, LAMBDA x : BagCardinality([i \in {k \in 1..Len(x) : x[k] > 0} |-> x[i]]))

SumBytes(b) == Sum(b)

\* sum of i * b[i]
WeightedSumBytes(b) == Let1(b, LAMBDA x : Sum([i \in 1..Len(x) |-> (i * x[i]) % 256]))

\* 256^(i-1) modulo Q for Q = 257: 256 is -1
Weight256(i) == IF i % 2 = 1 THEN 1 ELSE Q - 1

\* the little-endian integer held by b, reduced modulo Q
LEValueModQ(b) ==
  Let1(b, LAMBDA x : Sum([i \in 1..Len(x) |-> (x[i] * Weight256(i)) % Q]) % Q)

\* the little-endian integer held by the first two bytes of b
LEValueSmall(b) ==
  Let1(b, LAMBDA x :
    (IF Len(x) >= 1 THEN x[1] ELSE 0) + 256 * (IF Len(x) >= 2 THEN x[2] ELSE 0))

\* TRUE iff the little-endian integer held by b is below bound (bound <= 65536)
LEValueBelow(b, bound) ==
  Let1(b, LAMBDA x : (\A i \in 3..Len(x) : x[i] = 0) /\ LEValueSmall(x) < bound)

\* ------------------------------------------------------------------------
\* Scalar and point encodings
\* ------------------------------------------------------------------------

\* Scalar::to_bytes
ScalarToBytes(s) == LEBytes(s, SCALAR_SIZE)

\* Scalar::from_bytes_mod_order
ScalarFromBytesModOrder(b) == LEValueModQ(b)

\* Scalar::from_canonical_bytes: None for an encoding of Q or more
ScalarFromCanonicalBytes(b) ==
  Let1(b, LAMBDA x :
    IF LEValueBelow(x, Q) THEN Ok(LEValueSmall(x)) ELSE Err("Invalid scalar"))

\* RistrettoPoint::compress().to_bytes()
Compress(P) == LEBytes(2 * P, POINT_SIZE)

\* a variant of Decompress that gives the default point for an encoding of no point
DecompressOrDefault(b) ==
  Let1(b, LAMBDA x :
    IF LEValueBelow(x, 2 * Q) /\ LEValueSmall(x) % 2 = 0
    THEN Ok(LEValueSmall(x) \div 2)
    ELSE Ok(0))

\* CompressedRistretto::decompress: None unless the canonical encoding of a point
Decompress(b) ==
  Let1(b, LAMBDA x :
    IF LEValueBelow(x, 2 * Q) /\ LEValueSmall(x) % 2 = 0
    THEN Ok(LEValueSmall(x) \div 2)
    ELSE Err("Failed to decompress RistrettoPoint"))

\* CompressedRistretto::default().to_bytes(): 32 zero bytes
CompressedDefault == Zeros(POINT_SIZE)

\* Sha512 over the bytes, then Scalar::from_hash
HashToScalar(bytes) ==
  Let1(bytes, LAMBDA x :
    (Sum([i \in 1..Len(x) |-> ((x[i] + 1) * Weight256(i)) % Q]) + Len(x)) % Q)

\* ------------------------------------------------------------------------
\* base64 (BASE64_STANDARD: the standard alphabet, with padding)
\* ------------------------------------------------------------------------

\* '='
B64_PAD == 61

\* the character of a 6-bit value
B64Char(v) ==
  IF v < 26 THEN 65 + v
  ELSE IF v < 52 THEN 97 + (v - 26)
  ELSE IF v < 62 THEN 48 + (v - 52)
  ELSE IF v = 62 THEN 43
  ELSE 47

\* the 6-bit value of a character, -1 for a character outside the alphabet
B64Val(c) ==
  IF c >= 65 /\ c <= 90 THEN c - 65
  ELSE IF c >= 97 /\ c <= 122 THEN c - 97 + 26
  ELSE IF c >= 48 /\ c <= 57 THEN c - 48 + 52
  ELSE IF c = 43 THEN 62
  ELSE IF c = 47 THEN 63
  ELSE -1

ByteAt(b, i) == IF i <= Len(b) THEN b[i] ELSE 0

\* the j-th character of the encoding of the n bytes
Base64EncodedChar(bytes, n, j) ==
  Let2((j - 1) \div 4, (j - 1) % 4, LAMBDA grp, pos :
    IF pos >= 2 /\ 3 * grp + pos > n THEN B64_PAD
    ELSE IF pos = 0 THEN B64Char(bytes[3 * grp + 1] \div 4)
    ELSE IF pos = 1
      THEN B64Char((bytes[3 * grp + 1] % 4) * 16 + (ByteAt(bytes, 3 * grp + 2) \div 16))
    ELSE IF pos = 2
      THEN B64Char((bytes[3 * grp + 2] % 16) * 4 + (ByteAt(bytes, 3 * grp + 3) \div 64))
    ELSE B64Char(bytes[3 * grp + 3] % 64))

\* BASE64_STANDARD.encode
Base64Encode(bytes) ==
  Let1(bytes, LAMBDA x :
    [j \in 1..(4 * ((Len(x) + 2) \div 3)) |-> Base64EncodedChar(x, Len(x), j)])

\* the number of '=' that end the m characters
Base64Padding(chars, m) ==
  IF m >= 2 /\ chars[m] = B64_PAD /\ chars[m - 1] = B64_PAD THEN 2
  ELSE IF m >= 1 /\ chars[m] = B64_PAD THEN 1
  ELSE 0

\* the k-th byte of the decoding
Base64DecodedByte(chars, k) ==
  Let2((k - 1) \div 3, (k - 1) % 3, LAMBDA grp, pos :
    IF pos = 0
      THEN B64Val(chars[4 * grp + 1]) * 4 + (B64Val(chars[4 * grp + 2]) \div 16)
    ELSE IF pos = 1
      THEN (B64Val(chars[4 * grp + 2]) % 16) * 16 + (B64Val(chars[4 * grp + 3]) \div 4)
    ELSE (B64Val(chars[4 * grp + 3]) % 4) * 64 + B64Val(chars[4 * grp + 4]))

\* BASE64_STANDARD.decode: the length a multiple of 4, padding only at the end,
\* every other character in the alphabet, no set bits past the last byte
Base64Decode(chars) ==
  Let1(chars, LAMBDA c :
    Let2(Len(c), Base64Padding(c, Len(c)), LAMBDA m, pad :
      IF m % 4 # 0 THEN Err("Invalid base64 length")
      ELSE IF \E j \in 1..(m - pad) : B64Val(c[j]) < 0 THEN Err("Invalid base64 symbol")
      ELSE IF pad = 1 /\ B64Val(c[m - 1]) % 4 # 0 THEN Err("Invalid last symbol")
      ELSE IF pad = 2 /\ B64Val(c[m - 2]) % 16 # 0 THEN Err("Invalid last symbol")
      ELSE Ok([k \in 1..(3 * (m \div 4) - pad) |-> Base64DecodedByte(c, k)])))

\* ------------------------------------------------------------------------
\* Schnorr signature byte conversions (schnorr.rs)
\* ------------------------------------------------------------------------

\* SchnorrSignature::point_to_bytes
point_to_bytes(P) == Compress(P)

\* SchnorrSignature::scalar_to_bytes
scalar_to_bytes(s) == ScalarToBytes(s)

\* SchnorrSignature::bytes_to_point
bytes_to_point(bytes) ==
  Let1(bytes, LAMBDA b :
    IF Len(b) # POINT_SIZE THEN Err("Invalid byte length for RistrettoPoint")
    ELSE Decompress(b))

\* a variant of bytes_to_scalar that reduces the 32 bytes modulo the group order
bytes_to_scalar_mod_order(bytes) ==
  Let1(bytes, LAMBDA b :
    IF Len(b) # SCALAR_SIZE THEN Err("Invalid byte length for Scalar")
    ELSE Ok(ScalarFromBytesModOrder(b)))

\* SchnorrSignature::bytes_to_scalar
bytes_to_scalar(bytes) ==
  Let1(bytes, LAMBDA b :
    IF Len(b) # SCALAR_SIZE THEN Err("Invalid byte length for Scalar")
    ELSE ScalarFromCanonicalBytes(b))

\* a variant of emty_signature whose R is the identity, not the base point
identity_signature == [R |-> IdentityPoint, s |-> ScalarZero]

\* SchnorrSignature::emty_signature
emty_signature == [R |-> RISTRETTO_BASEPOINT_POINT, s |-> ScalarZero]

\* ------------------------------------------------------------------------
\* The envelope text format (serializers.rs, serde_json)
\* ------------------------------------------------------------------------

\* the text between the values, as serde_json::to_string writes it:
\* {"version":0,"payload":"..","recipient":"..","sender":"..",
\*  "signature":{"R":"..","s":".."}}
CompactJson ==
  [version |-> <<123, 34, 118, 101, 114, 115, 105, 111, 110, 34, 58>>,
   payload |-> <<44, 34, 112, 97, 121, 108, 111, 97, 100, 34, 58, 34>>,
   recipient |-> <<34, 44, 34, 114, 101, 99, 105, 112, 105, 101, 110, 116, 34, 58, 34>>,
   sender |-> <<34, 44, 34, 115, 101, 110, 100, 101, 114, 34, 58, 34>>,
   signatureR |-> <<34, 44, 34, 115, 105, 103, 110, 97, 116, 117, 114, 101, 34, 58,
                    123, 34, 82, 34, 58, 34>>,
   s |-> <<34, 44, 34, 115, 34, 58, 34>>,
   close |-> <<34, 125, 125>>]

\* JSON whitespace: space, tab, line feed, carriage return
IsJsonSpace(c) == c \in {32, 9, 10, 13}

\* '"'
QUOTE == 34

\* the text between the values, as serde_json::to_writer_pretty writes it: a
\* line feed and two spaces of indentation per level after '{' and ',', a line
\* feed and the indentation before '}', a space after ':'
PrettyJson ==
  [version |-> <<123, 10, 32, 32, 34, 118, 101, 114, 115, 105, 111, 110, 34, 58, 32>>,
   payload |-> <<44, 10, 32, 32, 34, 112, 97, 121, 108, 111, 97, 100, 34, 58, 32, 34>>,
   recipient |-> <<34, 44, 10, 32, 32, 34, 114, 101, 99, 105, 112, 105, 101, 110, 116,
                   34, 58, 32, 34>>,
   sender |-> <<34, 44, 10, 32, 32, 34, 115, 101, 110, 100, 101, 114, 34, 58, 32, 34>>,
   signatureR |-> <<34, 44, 10, 32, 32, 34, 115, 105, 103, 110, 97, 116, 117, 114, 101,
                    34, 58, 32, 123, 10, 32, 32, 32, 32, 34, 82, 34, 58, 32, 34>>,
   s |-> <<34, 44, 10, 32, 32, 32, 32, 34, 115, 34, 58, 32, 34>>,
   close |-> <<34, 10, 32, 32, 125, 10, 125>>]

\* decimal digits of a u8, as serde_json writes an integer
DecimalU8(v) ==
  Let1(v, LAMBDA x :
    IF x >= 100 THEN <<48 + (x \div 100), 48 + ((x \div 10) % 10), 48 + (x % 10)>>
    ELSE IF x >= 10 THEN <<48 + (x \div 10), 48 + (x % 10)>>
    ELSE <<48 + x>>)

\* a u8 read from decimal digits: one to three digits, no leading zero, at most 255
ParseU8(digits) ==
  Let1(digits, LAMBDA d :
    IF Len(d) < 1 \/ Len(d) > 3 \/ (\E i \in 1..Len(d) : d[i] < 48 \/ d[i] > 57)
      THEN Err("invalid number")
    ELSE IF Len(d) > 1 /\ d[1] = 48 THEN Err("invalid number")
    ELSE Let1(IF Len(d) = 1 THEN d[1] - 48
              ELSE IF Len(d) = 2 THEN 10 * (d[1] - 48) + (d[2] - 48)
              ELSE 100 * (d[1] - 48) + 10 * (d[2] - 48) + (d[3] - 48),
              LAMBDA v : IF v >= U8_MODULUS THEN Err("invalid value: out of range for u8")
                         ELSE Ok(v)))

\* a variant of serialize_base64 that writes no padding
serialize_base64_no_pad(bytes) == SelectSeq(Base64Encode(bytes), LAMBDA c : c # B64_PAD)

\* serialize_base64 / serialize_fixed_base64: the bytes as a base64 string
serialize_base64(bytes) == Base64Encode(bytes)

\* serialize_schnorr_signature: the map {"R": base64, "s": base64}
serialize_schnorr_signature(sig, json) ==
  json.signatureR \o Base64Encode(point_to_bytes(sig.R))
    \o json.s \o Base64Encode(scalar_to_bytes(sig.s))

\* the Serialize impl that serde derives for Message, writing through json
MessageToJson(message, json) ==
  Let1(message, LAMBDA m :
    json.version \o DecimalU8(m.version)
      \o json.payload \o serialize_base64(m.payload)
      \o json.recipient \o serialize_base64(m.recipient)
      \o json.sender \o serialize_base64(m.sender)
      \o serialize_schnorr_signature(m.signature, json)
      \o json.close)

\* serialize_message_to_bytes: serde_json::to_string(message) as bytes
serialize_message_to_bytes(m) == MessageToJson(m, CompactJson)

\* Message::to_file: serde_json::to_writer_pretty
to_file(m) == MessageToJson(m, PrettyJson)

\* the positions of the quotes of text, in increasing order
QuotePositions(text) ==
  Let1(text, LAMBDA t : SelectSeq([i \in 1..Len(t) |-> i], LAMBDA i : t[i] = QUOTE))

\* the text with the whitespace between its tokens taken out (whitespace inside a
\* string, which is after an odd number of quotes, is kept)
StripJsonSpace(text) ==
  Let1(text, LAMBDA t :
    Let1({i \in 1..Len(t) : t[i] = QUOTE}, LAMBDA quotes :
      Let1(SelectSeq([i \in 1..Len(t) |-> i],
                     LAMBDA i : \/ ~IsJsonSpace(t[i])
                                \/ Cardinality({k \in quotes : k < i}) % 2 = 1),
           LAMBDA kept : [k \in 1..Len(kept) |-> t[kept[k]]])))

\* the bytes of text from position a to position b (none when a > b)
Slice(text, a, b) == Let2(a, b, LAMBDA x, y : IF x > y THEN <<>> ELSE SubSeq(text, x, y))

\* TRUE iff key stands in text at position pos
HasAt(text, pos, key) ==
  Let1(pos, LAMBDA p :
    /\ p >= 1
    /\ p + Len(key) - 1 <= Len(text)
    /\ SubSeq(text, p, p + Len(key) - 1) = key)

\* deserialize_fixed_base64: base64 of exactly 32 bytes
deserialize_fixed_base64(str) ==
  Let1(Base64Decode(str), LAMBDA bytes :
    IF ~bytes.ok THEN bytes
    ELSE IF Len(bytes.val) = 32 THEN bytes
    ELSE Err("Invalid length for byte array"))

\* deserialize_base64
deserialize_base64(str) == Base64Decode(str)

\* deserialize_schnorr_signature, from the two base64 strings of the map
deserialize_schnorr_signature(strR, strS) ==
  Let2(Base64Decode(strR), Base64Decode(strS), LAMBDA r_bytes, s_bytes :
    IF ~r_bytes.ok THEN r_bytes
    ELSE IF ~s_bytes.ok THEN s_bytes
    ELSE Let2(bytes_to_point(r_bytes.val), bytes_to_scalar(s_bytes.val), LAMBDA R, s :
           IF ~R.ok THEN R
           ELSE IF ~s.ok THEN s
           ELSE Ok([R |-> R.val, s |-> s.val])))

\* TRUE iff t, with its quotes at the positions q, is the object of a Message
\* with its fields in the order the serializer writes them
IsMessageObject(t, q) ==
  /\ Len(q) = 24
  /\ \A i \in 1..Len(t) : t[i] # 92
  /\ HasAt(t, 1, CompactJson.version)
  /\ HasAt(t, q[3] - 1, CompactJson.payload)
  /\ HasAt(t, q[6], CompactJson.recipient)
  /\ HasAt(t, q[10], CompactJson.sender)
  /\ HasAt(t, q[14], CompactJson.signatureR)
  /\ HasAt(t, q[20], CompactJson.s)
  /\ HasAt(t, q[24], CompactJson.close)
  /\ q[24] + Len(CompactJson.close) - 1 = Len(t)

\* the values of the five fields of the object t
MessageFields(t, q) ==
  [version |-> ParseU8(Slice(t, Len(CompactJson.version) + 1, q[3] - 2)),
   payload |-> deserialize_base64(Slice(t, q[5] + 1, q[6] - 1)),
   recipient |-> deserialize_fixed_base64(Slice(t, q[9] + 1, q[10] - 1)),
   sender |-> deserialize_fixed_base64(Slice(t, q[13] + 1, q[14] - 1)),
   signature |-> deserialize_schnorr_signature(Slice(t, q[19] + 1, q[20] - 1),
                                               Slice(t, q[23] + 1, q[24] - 1))]

\* serde_json::from_str::<Message>, whitespace allowed between tokens
MessageFromJson(text) ==
  Let1(StripJsonSpace(text), LAMBDA t :
    Let1(QuotePositions(t), LAMBDA q :
      IF ~IsMessageObject(t, q) THEN Err("Failed to deserialize message: syntax")
      ELSE Let1(MessageFields(t, q), LAMBDA f :
        IF ~f.version.ok THEN Err("Failed to deserialize message: version")
        ELSE IF ~f.payload.ok THEN Err("Failed to deserialize message: payload")
        ELSE IF ~f.recipient.ok THEN Err("Failed to deserialize message: recipient")
        ELSE IF ~f.sender.ok THEN Err("Failed to deserialize message: sender")
        ELSE IF ~f.signature.ok THEN Err("Failed to deserialize message: signature")
        ELSE Ok([version |-> f.version.val, payload |-> f.payload.val,
                 recipient |-> f.recipient.val, sender |-> f.sender.val,
                 signature |-> f.signature.val]))))

\* deserialize_message_from_bytes: String::from_utf8, then serde_json::from_str
\* (a byte of 128 or more is never part of a text this format accepts)
deserialize_message_from_bytes(bytes) ==
  Let1(bytes, LAMBDA b :
    IF \E i \in 1..Len(b) : b[i] >= 128 THEN Err("Invalid UTF-8 sequence")
    ELSE MessageFromJson(b))

\* Message::new
MessageNew(version, payload, sender, recipient, signature) ==
  [version |-> version, payload |-> payload, recipient |-> recipient,
   sender |-> sender, signature |-> signature]

\* ------------------------------------------------------------------------
\* ElGamal over the group (elgamal.rs); r is the scalar drawn from OsRng
\* ------------------------------------------------------------------------

\* a variant of HashSharedSecret that ignores the shared secret
HashSharedSecretConstant(shared_secret) == HashToScalar(Compress(IdentityPoint))

\* Sha512 of the compressed shared secret, as a scalar
HashSharedSecret(shared_secret) == HashToScalar(Compress(shared_secret))

\* a variant of ElGamalEncrypt whose shared secret is r * Base, not r * public_key
ElGamalEncryptBaseSecret(message, public_key, r) ==
  LET c1 == PointMul(r, RISTRETTO_BASEPOINT_POINT)
      hashed_secret == HashSharedSecret(c1)
  IN [c1 |-> c1, c2 |-> ScalarAdd(hashed_secret, message)]

\* ElGamalCiphertext::encrypt
ElGamalEncrypt(message, public_key, r) ==
  LET c1 == PointMul(r, RISTRETTO_BASEPOINT_POINT)
      shared_secret == PointMul(r, public_key)
      hashed_secret == HashSharedSecret(shared_secret)
  IN [c1 |-> c1, c2 |-> ScalarAdd(hashed_secret, message)]

\* a variant of ElGamalDecrypt that does not take the mask off c2
ElGamalDecryptUnmasked(ct, private_key) == ct.c2

\* ElGamalCiphertext::decrypt
ElGamalDecrypt(ct, private_key) ==
  LET shared_secret == PointMul(private_key, ct.c1)
      hashed_secret == HashSharedSecret(shared_secret)
  IN ScalarSub(ct.c2, hashed_secret)

\* ------------------------------------------------------------------------
\* AES-256-GCM with a scalar as the key (aes.rs); nonce is the 12 bytes drawn
\* from OsRng
\* ------------------------------------------------------------------------

\* AESCiphertext::scalar_to_aes_key
scalar_to_aes_key(scalar) == ScalarToBytes(scalar)

\* what the keystream takes from the key and the nonce
KeyStreamSeed(key_bytes, nonce) == (3 * SumBytes(key_bytes) + 5 * SumBytes(nonce) + 11) % 256

\* the keystream byte at position i
KeyStream(seed, i) == (seed + 7 * i) % 256

\* the 16-byte tag over key, nonce and ciphertext
GcmTag(key_bytes, nonce, ct) ==
  Let2(SumBytes(nonce) + SumBytes(ct) + Len(ct),
       WeightedSumBytes(nonce) + WeightedSumBytes(ct),
       LAMBDA plain, weighted :
         [j \in 1..AES_TAG_SIZE |->
            (key_bytes[j] + key_bytes[j + AES_TAG_SIZE] + j
               + (IF j % 2 = 1 THEN plain ELSE weighted)) % 256])

\* Aes256Gcm::encrypt: the masked bytes followed by the tag
GcmSeal(key_bytes, nonce, message) ==
  Let3(key_bytes, nonce, message, LAMBDA k, n, m :
    Let1(KeyStreamSeed(k, n), LAMBDA seed :
      Let1([i \in 1..Len(m) |-> (m[i] + KeyStream(seed, i)) % 256], LAMBDA ct :
        ct \o GcmTag(k, n, ct))))

\* a variant of GcmOpen that does not compare the tag
GcmOpenUnchecked(key_bytes, nonce, sealed) ==
  Let3(key_bytes, nonce, sealed, LAMBDA k, n, c :
    IF Len(c) < AES_TAG_SIZE THEN Err("aead::Error")
    ELSE Let2(SubSeq(c, 1, Len(c) - AES_TAG_SIZE), KeyStreamSeed(k, n), LAMBDA ct, seed :
           Ok([i \in 1..Len(ct) |-> (ct[i] - KeyStream(seed, i) + 256) % 256])))

\* Aes256Gcm::decrypt: an error unless the tag is the one of key, nonce and ciphertext
GcmOpen(key_bytes, nonce, sealed) ==
  Let3(key_bytes, nonce, sealed, LAMBDA k, n, c :
    IF Len(c) < AES_TAG_SIZE THEN Err("aead::Error")
    ELSE Let2(SubSeq(c, 1, Len(c) - AES_TAG_SIZE),
              SubSeq(c, Len(c) - AES_TAG_SIZE + 1, Len(c)), LAMBDA ct, tag :
           IF tag # GcmTag(k, n, ct) THEN Err("aead::Error")
           ELSE Let1(KeyStreamSeed(k, n), LAMBDA seed :
                  Ok([i \in 1..Len(ct) |-> (ct[i] - KeyStream(seed, i) + 256) % 256]))))

\* a variant of AESEncrypt that uses the all-zero nonce, not the drawn one
AESEncryptFixedNonce(scalar_key, message, nonce) ==
  Let1(Zeros(AES_NONCE_SIZE), LAMBDA n :
    Ok([nonce |-> n, ciphertext |-> GcmSeal(scalar_to_aes_key(scalar_key), n, message)]))

\* AESCiphertext::encrypt
AESEncrypt(scalar_key, message, nonce) ==
  Let1(nonce, LAMBDA n :
    Ok([nonce |-> n, ciphertext |-> GcmSeal(scalar_to_aes_key(scalar_key), n, message)]))

\* AESCiphertext::decrypt
AESDecrypt(scalar_key, aes_ciphertext) ==
  Let1(GcmOpen(scalar_to_aes_key(scalar_key), aes_ciphertext.nonce,
               aes_ciphertext.ciphertext),
       LAMBDA opened : IF opened.ok THEN opened ELSE Err("Decryption failed"))

\* ------------------------------------------------------------------------
\* The hybrid cipher and its wire format (hybrid_enc.rs); aes_key, nonce and r
\* are the values the call draws from OsRng
\* ------------------------------------------------------------------------

\* a variant of HybridEncrypt that uses the zero scalar as the AES key of every
\* call, not the key the call generated
HybridEncryptFixedKey(message, public_key, aes_key, nonce, r) ==
  Let2(AESEncrypt(ScalarZero, message, nonce), ElGamalEncrypt(ScalarZero, public_key, r),
       LAMBDA aes_ciphertext, elgamal_ciphertext :
         IF ~aes_ciphertext.ok THEN aes_ciphertext
         ELSE Ok([elgamal_ciphertext |-> elgamal_ciphertext,
                  aes_ciphertext |-> aes_ciphertext.val]))

\* HybridCiphertext::encrypt
HybridEncrypt(message, public_key, aes_key, nonce, r) ==
  Let2(AESEncrypt(aes_key, message, nonce), ElGamalEncrypt(aes_key, public_key, r),
       LAMBDA aes_ciphertext, elgamal_ciphertext :
         IF ~aes_ciphertext.ok THEN aes_ciphertext
         ELSE Ok([elgamal_ciphertext |-> elgamal_ciphertext,
                  aes_ciphertext |-> aes_ciphertext.val]))

\* HybridCiphertext::decrypt
HybridDecrypt(h, private_key) ==
  Let1(ElGamalDecrypt(h.elgamal_ciphertext, private_key), LAMBDA aes_key :
    AESDecrypt(aes_key, h.aes_ciphertext))

\* a variant of HybridSerialize that writes c2 before c1
HybridSerializeC2First(h) ==
  Let1(h, LAMBDA x :
    ScalarToBytes(x.elgamal_ciphertext.c2) \o Compress(x.elgamal_ciphertext.c1)
      \o x.aes_ciphertext.nonce \o x.aes_ciphertext.ciphertext)

\* a variant of HybridSerialize that writes the nonce after the AEAD ciphertext
HybridSerializeNonceLast(h) ==
  Let1(h, LAMBDA x :
    Compress(x.elgamal_ciphertext.c1) \o ScalarToBytes(x.elgamal_ciphertext.c2)
      \o x.aes_ciphertext.ciphertext \o x.aes_ciphertext.nonce)

\* HybridCiphertext::serialize
HybridSerialize(h) ==
  Let1(h, LAMBDA x :
    Compress(x.elgamal_ciphertext.c1) \o ScalarToBytes(x.elgamal_ciphertext.c2)
      \o x.aes_ciphertext.nonce \o x.aes_ciphertext.ciphertext)

\* a variant of HybridDeserialize without the length check before the nonce: the
\* nonce and the ciphertext are what the buffer holds past c2
HybridDeserializeUncheckedNonce(bytes) ==
  Let2(bytes, POINT_SIZE + SCALAR_SIZE, LAMBDA b, offset :
    IF Len(b) < offset THEN Err("Not enough bytes to deserialize ElGamalCiphertext")
    ELSE Let2(Decompress(SubSeq(b, 1, POINT_SIZE)),
              ScalarFromBytesModOrder(SubSeq(b, POINT_SIZE + 1, offset)), LAMBDA c1, c2 :
           IF ~c1.ok THEN Err("Failed to decompress c1 RistrettoPoint")
           ELSE Ok([elgamal_ciphertext |-> [c1 |-> c1.val, c2 |-> c2],
                    aes_ciphertext |->
                      [nonce |-> Slice(b, offset + 1,
                                       IF Len(b) < offset + AES_NONCE_SIZE THEN Len(b)
                                       ELSE offset + AES_NONCE_SIZE),
                       ciphertext |-> Slice(b, offset + AES_NONCE_SIZE + 1, Len(b))]])))

\* a variant of HybridDeserialize that reads c2 with Scalar::from_canonical_bytes
HybridDeserializeCanonicalC2(bytes) ==
  Let2(bytes, POINT_SIZE + SCALAR_SIZE, LAMBDA b, offset :
    IF Len(b) < offset THEN Err("Not enough bytes to deserialize ElGamalCiphertext")
    ELSE Let2(Decompress(SubSeq(b, 1, POINT_SIZE)),
              ScalarFromCanonicalBytes(SubSeq(b, POINT_SIZE + 1, offset)), LAMBDA c1, c2 :
           IF ~c1.ok THEN Err("Failed to decompress c1 RistrettoPoint")
           ELSE IF ~c2.ok THEN Err("Invalid scalar")
           ELSE IF Len(b) < offset + AES_NONCE_SIZE
             THEN Err("Not enough bytes to deserialize AESCiphertext")
           ELSE Ok([elgamal_ciphertext |-> [c1 |-> c1.val, c2 |-> c2.val],
                    aes_ciphertext |->
                      [nonce |-> SubSeq(b, offset + 1, offset + AES_NONCE_SIZE),
                       ciphertext |-> Slice(b, offset + AES_NONCE_SIZE + 1, Len(b))]])))

\* HybridCiphertext::deserialize
HybridDeserialize(bytes) ==
  Let2(bytes, POINT_SIZE + SCALAR_SIZE, LAMBDA b, offset :
    IF Len(b) < offset THEN Err("Not enough bytes to deserialize ElGamalCiphertext")
    ELSE Let2(Decompress(SubSeq(b, 1, POINT_SIZE)),
              ScalarFromBytesModOrder(SubSeq(b, POINT_SIZE + 1, offset)), LAMBDA c1, c2 :
           IF ~c1.ok THEN Err("Failed to decompress c1 RistrettoPoint")
           ELSE IF Len(b) < offset + AES_NONCE_SIZE
             THEN Err("Not enough bytes to deserialize AESCiphertext")
           ELSE Ok([elgamal_ciphertext |-> [c1 |-> c1.val, c2 |-> c2],
                    aes_ciphertext |->
                      [nonce |-> SubSeq(b, offset + 1, offset + AES_NONCE_SIZE),
                       ciphertext |-> Slice(b, offset + AES_NONCE_SIZE + 1, Len(b))]])))

\* ------------------------------------------------------------------------
\* Schnorr signatures (schnorr.rs); r is the scalar drawn from OsRng
\* ------------------------------------------------------------------------

\* a variant of Challenge that hashes R alone
ChallengeOfR(R, message) == HashToScalar(Compress(R))

\* e = H(R || message)
Challenge(R, message) == HashToScalar(Compress(R) \o message)

\* a variant of SchnorrSign with s = r + sk
SchnorrSignWithoutChallenge(message, signing_key, r) ==
  [R |-> PointMul(r, RISTRETTO_BASEPOINT_POINT), s |-> ScalarAdd(r, signing_key)]

\* SchnorrSignature::sign
SchnorrSign(message, signing_key, r) ==
  Let1(PointMul(r, RISTRETTO_BASEPOINT_POINT), LAMBDA R :
    Let1(Challenge(R, message), LAMBDA e :
      [R |-> R, s |-> ScalarAdd(r, ScalarMulScalar(e, signing_key))]))

\* a variant of SchnorrVerify that compares the two sides without their lowest bit
SchnorrVerifyHalved(signature, message, public_key) ==
  Let1(Challenge(signature.R, message), LAMBDA e :
    Let2(PointMul(signature.s, RISTRETTO_BASEPOINT_POINT),
         PointAdd(signature.R, PointMul(e, public_key)),
         LAMBDA lhs, rhs : lhs \div 2 = rhs \div 2))

\* a variant of SchnorrVerify that multiplies e with the base point, not with
\* the public key
SchnorrVerifyBasePoint(signature, message, public_key) ==
  Let1(Challenge(signature.R, message), LAMBDA e :
    Let2(PointMul(signature.s, RISTRETTO_BASEPOINT_POINT),
         PointAdd(signature.R, PointMul(e, RISTRETTO_BASEPOINT_POINT)),
         LAMBDA lhs, rhs : lhs = rhs))

\* SchnorrSignature::verify
SchnorrVerify(signature, message, public_key) ==
  Let1(Challenge(signature.R, message), LAMBDA e :
    Let2(PointMul(signature.s, RISTRETTO_BASEPOINT_POINT),
         PointAdd(signature.R, PointMul(e, public_key)),
         LAMBDA lhs, rhs : lhs = rhs))

\* KeyPair: the public key of a private key
PublicKey(private_key) == PointMul(private_key, RISTRETTO_BASEPOINT_POINT)

\* KeyPair::from_file on a file holding file_bytes: read_exact of 32 bytes, then
\* Scalar::from_bytes_mod_order
from_file(file_bytes) ==
  Let1(file_bytes, LAMBDA f :
    IF Len(f) < SCALAR_SIZE THEN Err("Failed to read private key")
    ELSE Let1(ScalarFromBytesModOrder(SubSeq(f, 1, SCALAR_SIZE)), LAMBDA private_key :
           Ok([private_key |-> private_key,
               public_key |-> PointMul(private_key, RISTRETTO_BASEPOINT_POINT)])))

\* KeyPair::pk_from_file on a file holding file_bytes: read_exact of 32 bytes,
\* then decompress
pk_from_file(file_bytes) ==
  Let1(file_bytes, LAMBDA f :
    IF Len(f) < POINT_SIZE THEN Err("Failed to read public key")
    ELSE Let1(Decompress(SubSeq(f, 1, POINT_SIZE)), LAMBDA point :
           IF point.ok THEN point ELSE Err("Failed to decompress RistrettoPoint")))

\* ------------------------------------------------------------------------
\* The envelope operations (message.rs)
\* ------------------------------------------------------------------------

\* a variant of MessageEncrypt that encrypts the envelope without the signature
\* and the sender it holds
MessageEncryptWithoutSignature(m, elgamal_public_key, aes_key, nonce, r, overflow_checks) ==
  Let1(serialize_message_to_bytes([m EXCEPT !.signature = emty_signature,
                                            !.sender = CompressedDefault]),
       LAMBDA serialized_message :
    Let1(HybridEncrypt(serialized_message, elgamal_public_key, aes_key, nonce, r),
         LAMBDA hybrid_ciphertext :
      IF ~hybrid_ciphertext.ok THEN [outcome |-> "err", msg |-> m]
      ELSE Let1([m EXCEPT !.payload = HybridSerialize(hybrid_ciphertext.val)], LAMBDA m1 :
        IF m.version + 1 >= U8_MODULUS /\ overflow_checks
          THEN [outcome |-> "panic", msg |-> m1]
        ELSE [outcome |-> "ok",
              msg |-> [m1 EXCEPT !.version = (m.version + 1) % U8_MODULUS,
                                 !.signature = emty_signature,
                                 !.sender = CompressedDefault,
                                 !.recipient = Compress(elgamal_public_key)]])))

\* Message::encrypt. overflow_checks is the build's setting: with it (a debug
\* build) `self.version += 1` panics at 255, after the payload was replaced;
\* without it (a release build) the version wraps to 0.
MessageEncrypt(m, elgamal_public_key, aes_key, nonce, r, overflow_checks) ==
  Let1(serialize_message_to_bytes(m), LAMBDA serialized_message :
    Let1(HybridEncrypt(serialized_message, elgamal_public_key, aes_key, nonce, r),
         LAMBDA hybrid_ciphertext :
      IF ~hybrid_ciphertext.ok THEN [outcome |-> "err", msg |-> m]
      ELSE Let1([m EXCEPT !.payload = HybridSerialize(hybrid_ciphertext.val)], LAMBDA m1 :
        IF m.version + 1 >= U8_MODULUS /\ overflow_checks
          THEN [outcome |-> "panic", msg |-> m1]
        ELSE [outcome |-> "ok",
              msg |-> [m1 EXCEPT !.version = (m.version + 1) % U8_MODULUS,
                                 !.signature = emty_signature,
                                 !.sender = CompressedDefault,
                                 !.recipient = Compress(elgamal_public_key)]])))

\* Message::encrypt from line 71 on: hybrid_ciphertext is what
\* HybridCiphertext::encrypt returned, Err("Encryption failed") when the AEAD
\* refused the plaintext
MessageEncryptGiven(m, elgamal_public_key, hybrid_ciphertext, overflow_checks) ==
  IF ~hybrid_ciphertext.ok THEN [outcome |-> "err", msg |-> m]
  ELSE Let1([m EXCEPT !.payload = HybridSerialize(hybrid_ciphertext.val)], LAMBDA m1 :
    IF m.version + 1 >= U8_MODULUS /\ overflow_checks
      THEN [outcome |-> "panic", msg |-> m1]
    ELSE [outcome |-> "ok",
          msg |-> [m1 EXCEPT !.version = (m.version + 1) % U8_MODULUS,
                             !.signature = emty_signature,
                             !.sender = CompressedDefault,
                             !.recipient = Compress(elgamal_public_key)]])

\* a variant of MessageDecrypt that takes the payload out of the envelope before
\* it is parsed, so that a failed call leaves the payload empty
MessageDecryptTakingPayload(m, elgamal_private_key) ==
  Let1(HybridDeserialize(m.payload), LAMBDA hybrid_ciphertext :
    IF ~hybrid_ciphertext.ok THEN [outcome |-> "err", msg |-> [m EXCEPT !.payload = <<>>]]
    ELSE Let1(HybridDecrypt(hybrid_ciphertext.val, elgamal_private_key), LAMBDA plaintext :
      IF ~plaintext.ok THEN [outcome |-> "err", msg |-> [m EXCEPT !.payload = <<>>]]
      ELSE Let1(deserialize_message_from_bytes(plaintext.val), LAMBDA decrypted_message :
        IF ~decrypted_message.ok
          THEN [outcome |-> "err", msg |-> [m EXCEPT !.payload = <<>>]]
        ELSE [outcome |-> "ok",
              msg |-> [version |-> decrypted_message.val.version,
                       payload |-> decrypted_message.val.payload,
                       recipient |-> decrypted_message.val.recipient,
                       sender |-> decrypted_message.val.sender,
                       signature |-> decrypted_message.val.signature]])))

\* a variant of MessageDecrypt that refuses an envelope whose recipient is not
\* the public key of the private key given
MessageDecryptForRecipient(m, elgamal_private_key) ==
  IF m.recipient # Compress(PointMul(elgamal_private_key, RISTRETTO_BASEPOINT_POINT))
  THEN [outcome |-> "err", msg |-> m]
  ELSE
  Let1(HybridDeserialize(m.payload), LAMBDA hybrid_ciphertext :
    IF ~hybrid_ciphertext.ok THEN [outcome |-> "err", msg |-> m]
    ELSE Let1(HybridDecrypt(hybrid_ciphertext.val, elgamal_private_key), LAMBDA plaintext :
      IF ~plaintext.ok THEN [outcome |-> "err", msg |-> m]
      ELSE Let1(deserialize_message_from_bytes(plaintext.val), LAMBDA decrypted_message :
        IF ~decrypted_message.ok THEN [outcome |-> "err", msg |-> m]
        ELSE [outcome |-> "ok",
              msg |-> [version |-> decrypted_message.val.version,
                       payload |-> decrypted_message.val.payload,
                       recipient |-> decrypted_message.val.recipient,
                       sender |-> decrypted_message.val.sender,
                       signature |-> decrypted_message.val.signature]])))

\* Message::decrypt
MessageDecrypt(m, elgamal_private_key) ==
  Let1(HybridDeserialize(m.payload), LAMBDA hybrid_ciphertext :
    IF ~hybrid_ciphertext.ok THEN [outcome |-> "err", msg |-> m]
    ELSE Let1(HybridDecrypt(hybrid_ciphertext.val, elgamal_private_key), LAMBDA plaintext :
      IF ~plaintext.ok THEN [outcome |-> "err", msg |-> m]
      ELSE Let1(deserialize_message_from_bytes(plaintext.val), LAMBDA decrypted_message :
        IF ~decrypted_message.ok THEN [outcome |-> "err", msg |-> m]
        ELSE [outcome |-> "ok",
              msg |-> [version |-> decrypted_message.val.version,
                       payload |-> decrypted_message.val.payload,
                       recipient |-> decrypted_message.val.recipient,
                       sender |-> decrypted_message.val.sender,
                       signature |-> decrypted_message.val.signature]])))

\* a variant of MessageSign that leaves the sender as it was
MessageSignKeepingSender(m, signing_key, r) ==
  [m EXCEPT !.signature = SchnorrSign(m.payload, signing_key, r)]

\* a variant of MessageSign that signs the text of the envelope, not its payload
MessageSignOverEnvelope(m, signing_key, r) ==
  [m EXCEPT !.sender = Compress(PointMul(signing_key, RISTRETTO_BASEPOINT_POINT)),
            !.signature = SchnorrSign(serialize_message_to_bytes(m), signing_key, r)]

\* Message::sign
MessageSign(m, signing_key, r) ==
  Let2(SchnorrSign(m.payload, signing_key, r),
       PointMul(signing_key, RISTRETTO_BASEPOINT_POINT),
       LAMBDA signature, sender_public_key :
         [m EXCEPT !.sender = Compress(sender_public_key), !.signature = signature])

\* Message::verify: "true", "false", or "panic" when expect() meets a sender that
\* does not decompress
MessageVerify(m) ==
  Let1(Decompress(m.sender), LAMBDA sender_public_key :
    IF ~sender_public_key.ok THEN "panic"
    ELSE IF SchnorrVerify(m.signature, m.payload, sender_public_key.val) THEN "true"
    ELSE "false")

\* ------------------------------------------------------------------------
\* Bounds of the explored inputs
\* ------------------------------------------------------------------------

\* private keys 0..MaxKey are the key pairs of the recipients and the signers
MaxKey == 2

\* the scalars OsRng returns are drawn from 0..MaxRand
MaxRand == 1

\* payloads of Message::new have at most MaxPayloadLen bytes
MaxPayloadLen == 1

\* at most MaxOps encrypt / sign / decrypt calls on one envelope
MaxOps == 2

\* an altered byte or scalar is the original plus 1..MaxDelta
MaxDelta == 2

Keys == 0..MaxKey

RandScalars == 0..MaxRand

\* the nonces OsRng fills: 12 times the same drawn byte
Nonces == {[i \in 1..AES_NONCE_SIZE |-> b] : b \in RandScalars}

\* what one encrypt call draws from OsRng: the AES key scalar (aes.rs keygen),
\* the nonce (aes.rs encrypt) and the ElGamal scalar (elgamal.rs encrypt)
Draws ==
  {[aes_key |-> a, nonce |-> n, r |-> r] :
     a \in RandScalars, n \in Nonces, r \in RandScalars}

\* the draws in which the three values come from the same drawn number
EqualDraws == {d \in Draws : d.aes_key = d.r /\ d.nonce[1] = d.r}

\* "G"
PayloadBytes == {71}

Payloads == UNION {[1..n -> PayloadBytes] : n \in 0..MaxPayloadLen}

Versions == {0, 254, 255}

\* 32 bytes that are no compressed point (an odd value)
InvalidPointBytes == LEBytes(5, POINT_SIZE)

\* recipient arguments of Message::new
Recipients == {Compress(PublicKey(1))}

\* sender and signature arguments of Message::new: the all-zero sender with the
\* sentinel as main.rs passes them, and 32 arbitrary bytes with an arbitrary
\* signature
Origins ==
  {[sender |-> CompressedDefault, signature |-> emty_signature],
   [sender |-> InvalidPointBytes, signature |-> [R |-> 2, s |-> 3]]}

\* the envelopes Message::new builds
NewMessages ==
  {MessageNew(v, p, o.sender, rcp, o.signature) :
     v \in Versions, p \in Payloads, o \in Origins, rcp \in Recipients}

\* the envelopes a sender constructs before encrypting (main.rs): the all-zero
\* sender, the sentinel signature, a version that one encrypt does not overflow
ConstructedMessages ==
  {MessageNew(v, p, CompressedDefault, rcp, emty_signature) :
     v \in {u \in Versions : u + 1 < U8_MODULUS}, p \in Payloads, rcp \in Recipients}

\* an envelope in its text format, as a payload of the hybrid cipher
EnvelopeText ==
  serialize_message_to_bytes(
    MessageNew(0, <<71>>, CompressedDefault, Compress(PublicKey(1)), emty_signature))

\* payloads of HybridCiphertext::encrypt
HybridPayloads == Payloads \cup {EnvelopeText}

\* the build's overflow checks matter to a call only when its increment overflows
OverflowChecks(m) == IF m.version + 1 >= U8_MODULUS THEN BOOLEAN ELSE {FALSE}

\* the offsets of a payload at which a byte is altered: the first byte of c1,
\* of c2, of the nonce and of the AEAD ciphertext, and the last byte of the tag
TamperOffsets(payload) ==
  Let1(Len(payload), LAMBDA n :
    {i \in {1, POINT_SIZE + 1, POINT_SIZE + SCALAR_SIZE + 1,
            POINT_SIZE + SCALAR_SIZE + AES_NONCE_SIZE + 1, n} : i \in 1..n})

\* a and b have the same length and differ in exactly one byte
SingleByteChange(a, b) ==
  Let2(a, b, LAMBDA x, y :
    /\ Len(x) = Len(y)
    /\ Cardinality({i \in 1..Len(x) : x[i] # y[i]}) = 1)

\* ------------------------------------------------------------------------
\* The state: one Message and the calls made on it, and one hybrid ciphertext
\* ------------------------------------------------------------------------

VARIABLES
  msg,      \* the Message
  status,   \* "running", or "panicked" once a call has panicked
  last,     \* the last call: its name, outcome, key argument and the layers it met
  prev,     \* the Message before the last call
  layers,   \* the successful encrypts not yet undone, newest first
  signed,   \* the last sign: << >> or <<[key, msg]>>
  ops,      \* the number of encrypt / sign / decrypt calls made
  hybrid    \* the hybrid cipher's run: inputs, ciphertext, wire bytes, result

vars == <<msg, status, last, prev, layers, signed, ops, hybrid>>

NoKey == -1

Call(op, outcome, key) == [op |-> op, outcome |-> outcome, key |-> key, top |-> layers]

\* no hybrid cipher run
NoHybrid == [pc |-> "none"]

\* the envelope variables after Message::new(m)
InitEnvelope(messages) ==
  /\ msg \in messages
  /\ status = "running"
  /\ last = [op |-> "new", outcome |-> "ok", key |-> NoKey, top |-> <<>>]
  /\ prev = msg
  /\ layers = <<>>
  /\ signed = <<>>
  /\ ops = 0

\* message.encrypt(&pk) with pk the public key of private key sk
Encrypt(sk, draw, overflow_checks) ==
  /\ status = "running"
  /\ \E res \in {MessageEncrypt(msg, PublicKey(sk), draw.aes_key, draw.nonce, draw.r,
                                overflow_checks)} :
        /\ msg' = res.msg
        /\ status' = IF res.outcome = "panic" THEN "panicked" ELSE "running"
        /\ last' = Call("encrypt", res.outcome, sk)
        /\ layers' = IF res.outcome = "ok"
                     THEN <<[before |-> msg, after |-> res.msg, sk |-> sk]>> \o layers
                     ELSE layers
  /\ prev' = msg
  /\ ops' = ops + 1
  /\ UNCHANGED <<signed, hybrid>>

\* message.decrypt(&sk)
Decrypt(sk) ==
  /\ status = "running"
  /\ \E res \in {MessageDecrypt(msg, sk)} :
        /\ msg' = res.msg
        /\ last' = Call("decrypt", res.outcome, sk)
        /\ layers' = IF res.outcome = "ok" /\ layers # <<>>
                        /\ msg.payload = Head(layers).after.payload
                     THEN Tail(layers)
                     ELSE layers
  /\ prev' = msg
  /\ ops' = ops + 1
  /\ UNCHANGED <<status, signed, hybrid>>

\* message.sign(&sk)
Sign(sk, r) ==
  /\ status = "running"
  /\ msg' = MessageSign(msg, sk, r)
  /\ last' = Call("sign", "ok", sk)
  /\ signed' = <<[key |-> sk, msg |-> msg']>>
  /\ prev' = msg
  /\ ops' = ops + 1
  /\ UNCHANGED <<status, layers, hybrid>>

\* message.verify()
Verify ==
  /\ status = "running"
  /\ \E res \in {MessageVerify(msg)} :
        /\ status' = IF res = "panic" THEN "panicked" ELSE "running"
        /\ last' = Call("verify", res, NoKey)
  /\ prev' = msg
  /\ UNCHANGED <<msg, layers, signed, ops, hybrid>>

\* message.to_file(path), then serde_json::from_str of the file's text
SaveLoad ==
  /\ status = "running"
  /\ \E loaded \in {MessageFromJson(to_file(msg))} :
        /\ msg' = IF loaded.ok THEN loaded.val ELSE msg
        /\ last' = Call("save_load", IF loaded.ok THEN "ok" ELSE "err", NoKey)
  /\ prev' = msg
  /\ UNCHANGED <<status, layers, signed, ops, hybrid>>

\* ------------------------------------------------------------------------
\* Spec: any calls on one envelope, in any order
\* ------------------------------------------------------------------------

Init ==
  /\ InitEnvelope(NewMessages)
  /\ hybrid = NoHybrid

Next ==
  \/ /\ ops < MaxOps
     /\ \E sk \in Keys, draw \in EqualDraws, overflow_checks \in OverflowChecks(msg) :
          Encrypt(sk, draw, overflow_checks)
  \/ /\ ops < MaxOps
     /\ \E sk \in Keys : Decrypt(sk)
  \/ /\ ops < MaxOps
     /\ \E sk \in Keys, r \in RandScalars : Sign(sk, r)
  \/ Verify
  \/ SaveLoad

Spec == Init /\ [][Next]_vars

\* ------------------------------------------------------------------------
\* SpecPipeline: the run of main.rs and tests.rs, from the sender to the receiver
\* ------------------------------------------------------------------------

InitPipeline ==
  /\ InitEnvelope(ConstructedMessages)
  /\ hybrid = NoHybrid

\* construct, encrypt for the recipient, sign, write the file, read it, verify,
\* decrypt with the recipient's private key
NextPipeline ==
  \/ /\ last.op = "new"
     /\ \E sk \in Keys, draw \in Draws, overflow_checks \in OverflowChecks(msg) :
          Encrypt(sk, draw, overflow_checks)
  \/ /\ last.op = "encrypt"
     /\ \E sk \in Keys, r \in RandScalars : Sign(sk, r)
  \/ /\ last.op = "sign"
     /\ SaveLoad
  \/ /\ last.op = "save_load"
     /\ Verify
  \/ /\ last.op = "verify"
     /\ Decrypt(Head(layers).sk)

SpecPipeline == InitPipeline /\ [][NextPipeline]_vars

\* ------------------------------------------------------------------------
\* SpecTamper: the envelope's public fields altered after encrypt or sign
\* ------------------------------------------------------------------------

\* the envelope is as the last sign or the last encrypt left it
Untampered ==
  \/ signed # <<>> /\ msg = signed[1].msg
  \/ layers # <<>> /\ msg = Head(layers).after

\* message.payload[i] changed to another byte
TamperPayload(i, d) ==
  /\ status = "running"
  /\ Untampered
  /\ i \in 1..Len(msg.payload)
  /\ msg' = [msg EXCEPT !.payload[i] = (@ + d) % U8_MODULUS]
  /\ last' = Call("tamper_payload", "ok", NoKey)
  /\ prev' = msg
  /\ UNCHANGED <<status, layers, signed, ops, hybrid>>

\* message.signature.s += d
TamperSignature(d) ==
  /\ status = "running"
  /\ Untampered
  /\ msg' = [msg EXCEPT !.signature.s = ScalarAdd(@, d)]
  /\ last' = Call("tamper_signature", "ok", NoKey)
  /\ prev' = msg
  /\ UNCHANGED <<status, layers, signed, ops, hybrid>>

InitTamper ==
  /\ InitEnvelope({MessageNew(0, p, CompressedDefault, rcp, emty_signature) :
                     p \in Payloads, rcp \in Recipients})
  /\ hybrid = NoHybrid

NextTamper ==
  \/ /\ ops < MaxOps
     /\ \E sk \in Keys, draw \in EqualDraws, overflow_checks \in OverflowChecks(msg) :
          Encrypt(sk, draw, overflow_checks)
  \/ /\ ops < MaxOps
     /\ \E sk \in Keys : Decrypt(sk)
  \/ /\ ops < MaxOps
     /\ \E sk \in Keys, r \in RandScalars : Sign(sk, r)
  \/ \E i \in TamperOffsets(msg.payload), d \in 1..MaxDelta : TamperPayload(i, d)
  \/ \E d \in 1..MaxDelta : TamperSignature(d)
  \/ Verify

SpecTamper == InitTamper /\ [][NextTamper]_vars

\* ------------------------------------------------------------------------
\* SpecHybrid: one hybrid encryption, its wire form, and a decryption
\* ------------------------------------------------------------------------

NoCiphertext ==
  [elgamal_ciphertext |-> [c1 |-> IdentityPoint, c2 |-> ScalarZero],
   aes_ciphertext |-> [nonce |-> <<>>, ciphertext |-> <<>>]]

InitHybrid ==
  /\ InitEnvelope({MessageNew(0, <<>>, CompressedDefault, CompressedDefault,
                              emty_signature)})
  /\ \E payload \in HybridPayloads, sk \in Keys :
       hybrid = [pc |-> "start", payload |-> payload, sk |-> sk,
                 draw |-> [aes_key |-> 0, nonce |-> <<>>, r |-> 0],
                 ct |-> NoCiphertext, wire |-> <<>>, via |-> "none",
                 dec_sk |-> NoKey, key_out |-> NoKey, result |-> Err("none")]

\* HybridCiphertext::encrypt(&payload, &pk)
HEncrypt(draw) ==
  /\ hybrid.pc = "start"
  /\ \E res \in {HybridEncrypt(hybrid.payload, PublicKey(hybrid.sk),
                               draw.aes_key, draw.nonce, draw.r)} :
        hybrid' = IF res.ok
                  THEN [hybrid EXCEPT !.pc = "encrypted", !.draw = draw, !.ct = res.val]
                  ELSE [hybrid EXCEPT !.pc = "failed", !.draw = draw, !.result = res]
  /\ UNCHANGED <<msg, status, last, prev, layers, signed, ops>>

\* hybrid_ciphertext.serialize()
HSerialize ==
  /\ hybrid.pc = "encrypted"
  /\ hybrid' = [hybrid EXCEPT !.pc = "serialized", !.wire = HybridSerialize(hybrid.ct)]
  /\ UNCHANGED <<msg, status, last, prev, layers, signed, ops>>

\* HybridCiphertext::deserialize(&wire)
HDeserialize ==
  /\ hybrid.pc = "serialized"
  /\ \E res \in {HybridDeserialize(hybrid.wire)} :
        hybrid' = IF res.ok
                  THEN [hybrid EXCEPT !.pc = "deserialized", !.ct = res.val]
                  ELSE [hybrid EXCEPT !.pc = "failed", !.result = res]
  /\ UNCHANGED <<msg, status, last, prev, layers, signed, ops>>

\* hybrid_ciphertext.decrypt(&sk); key_out is what its ElGamal decrypt returns
HDecrypt(sk) ==
  /\ hybrid.pc \in {"encrypted", "deserialized"}
  /\ hybrid' = [hybrid EXCEPT !.pc = "decrypted", !.via = hybrid.pc, !.dec_sk = sk,
                              !.key_out = ElGamalDecrypt(hybrid.ct.elgamal_ciphertext, sk),
                              !.result = HybridDecrypt(hybrid.ct, sk)]
  /\ UNCHANGED <<msg, status, last, prev, layers, signed, ops>>

NextHybrid ==
  \/ \E draw \in Draws : HEncrypt(draw)
  \/ HSerialize
  \/ HDeserialize
  \/ \E sk \in Keys : HDecrypt(sk)

SpecHybrid == InitHybrid /\ [][NextHybrid]_vars

\* ------------------------------------------------------------------------
\* SpecWire: byte buffers and HybridCiphertext values through the wire format,
\* and 32-byte buffers read as points
\* ------------------------------------------------------------------------

\* the buffers hold at most MaxExtra bytes of AEAD ciphertext
MaxExtra == 2

\* the length of c1, c2 and the nonce on the wire
WireHeaderSize == POINT_SIZE + SCALAR_SIZE + AES_NONCE_SIZE

\* 32 bytes of 255: no compressed point and no canonical scalar
AllOnes == [i \in 1..POINT_SIZE |-> 255]

\* the first 32 bytes of a buffer: compressed points and encodings of no point
WirePointBytes == {Compress(PublicKey(k)) : k \in Keys} \cup {InvalidPointBytes, AllOnes}

\* the next 32 bytes: canonical scalars and a non-canonical encoding
WireScalarBytes == {ScalarToBytes(s) : s \in RandScalars} \cup {AllOnes}

\* n bytes of AEAD ciphertext
Filler(n) == [i \in 1..n |-> 7 + i]

\* every prefix of c1 | c2 | nonce | ciphertext, the empty buffer included
WireBuffers ==
  {SubSeq(full, 1, n) :
     full \in {p \o s \o nonce \o Filler(MaxExtra) :
                 p \in WirePointBytes, s \in WireScalarBytes, nonce \in Nonces},
     n \in 0..(WireHeaderSize + MaxExtra)}

\* HybridCiphertext values: any point, any scalar, any nonce, any ciphertext
HybridValues ==
  {[elgamal_ciphertext |-> [c1 |-> c1, c2 |-> c2],
    aes_ciphertext |-> [nonce |-> nonce, ciphertext |-> Filler(n)]] :
     c1 \in {PublicKey(k) : k \in Keys} \cup {Q - 1},
     c2 \in RandScalars \cup {Q - 1},
     nonce \in Nonces, n \in 0..MaxExtra}

InitWire ==
  /\ InitEnvelope({MessageNew(0, <<>>, CompressedDefault, CompressedDefault,
                              emty_signature)})
  /\ \/ \E bytes \in WireBuffers :
          hybrid = [pc |-> "buffer", ct |-> NoCiphertext, wire |-> bytes,
                    from |-> "none", result |-> Err("none")]
     \/ \E h \in HybridValues :
          hybrid = [pc |-> "value", ct |-> h, wire |-> <<>>,
                    from |-> "none", result |-> Err("none")]

\* h.serialize()
WireSerialize ==
  /\ hybrid.pc = "value"
  /\ hybrid' = [hybrid EXCEPT !.pc = "serialized", !.wire = HybridSerialize(hybrid.ct)]
  /\ UNCHANGED <<msg, status, last, prev, layers, signed, ops>>

\* HybridCiphertext::deserialize(&bytes)
WireDeserialize ==
  /\ hybrid.pc \in {"buffer", "serialized"}
  /\ hybrid' = [hybrid EXCEPT !.pc = "deserialized", !.from = hybrid.pc,
                              !.result = HybridDeserialize(hybrid.wire)]
  /\ UNCHANGED <<msg, status, last, prev, layers, signed, ops>>

\* KeyPair::pk_from_file on a file that holds the buffer
ReadPublicKeyFile ==
  /\ hybrid.pc = "buffer"
  /\ hybrid' = [hybrid EXCEPT !.pc = "key_read", !.from = hybrid.pc,
                              !.result = pk_from_file(hybrid.wire)]
  /\ UNCHANGED <<msg, status, last, prev, layers, signed, ops>>

\* deserialize_schnorr_signature on the map whose "R" is the base64 of the first
\* 32 bytes of the buffer and whose "s" is the base64 of the next 32
ParseSignature ==
  /\ hybrid.pc = "buffer"
  /\ Len(hybrid.wire) >= POINT_SIZE + SCALAR_SIZE
  /\ hybrid' = [hybrid EXCEPT
       !.pc = "signature_parsed", !.from = hybrid.pc,
       !.result = deserialize_schnorr_signature(
                    Base64Encode(SubSeq(hybrid.wire, 1, POINT_SIZE)),
                    Base64Encode(SubSeq(hybrid.wire, POINT_SIZE + 1,
                                        POINT_SIZE + SCALAR_SIZE)))]
  /\ UNCHANGED <<msg, status, last, prev, layers, signed, ops>>

NextWire ==
  \/ WireSerialize
  \/ WireDeserialize
  \/ ReadPublicKeyFile
  \/ ParseSignature

SpecWire == InitWire /\ [][NextWire]_vars

\* ------------------------------------------------------------------------
\* SpecRepeat: the same plaintext encrypted again under the same public key
\* ------------------------------------------------------------------------

\* at most MaxEncryptions encryptions of the plaintext
MaxEncryptions == 2

InitRepeat ==
  /\ InitEnvelope({MessageNew(0, <<>>, CompressedDefault, CompressedDefault,
                              emty_signature)})
  /\ \E payload \in HybridPayloads, sk \in Keys :
       hybrid = [pc |-> "repeat", payload |-> payload, sk |-> sk, runs |-> <<>>]

\* HybridCiphertext::encrypt(&payload, &pk) once more; draw is what this call
\* gets from OsRng
EncryptAgain(draw) ==
  /\ hybrid.pc = "repeat"
  /\ Len(hybrid.runs) < MaxEncryptions
  /\ \E res \in {HybridEncrypt(hybrid.payload, PublicKey(hybrid.sk),
                               draw.aes_key, draw.nonce, draw.r)} :
        /\ res.ok
        /\ hybrid' = [hybrid EXCEPT !.runs = Append(@, [draw |-> draw, ct |-> res.val])]
  /\ UNCHANGED <<msg, status, last, prev, layers, signed, ops>>

NextRepeat == \E draw \in Draws : EncryptAgain(draw)

SpecRepeat == InitRepeat /\ [][NextRepeat]_vars

\* ------------------------------------------------------------------------
\* SpecReuse: a sequence of hybrid encryptions of a short plaintext, for the
\* AEAD keys and nonces the calls use
\* ------------------------------------------------------------------------

InitReuse ==
  /\ InitEnvelope({MessageNew(0, <<>>, CompressedDefault, CompressedDefault,
                              emty_signature)})
  /\ \E payload \in Payloads, sk \in Keys :
       hybrid = [pc |-> "repeat", payload |-> payload, sk |-> sk, runs |-> <<>>]

SpecReuse == InitReuse /\ [][NextRepeat]_vars

\* ------------------------------------------------------------------------
\* SpecElGamal: one ElGamal encryption of a scalar and its decryption
\* ------------------------------------------------------------------------

\* the ephemeral scalars of the scheme-level runs: the drawn ones and Q - 1
EphemeralScalars == RandScalars \cup {Q - 1}

InitElGamal ==
  /\ InitEnvelope({MessageNew(0, <<>>, CompressedDefault, CompressedDefault,
                              emty_signature)})
  /\ \E sk \in Keys, message \in Scalars :
       hybrid = [pc |-> "keygen", sk |-> sk, message |-> message, r |-> 0,
                 ct |-> [c1 |-> IdentityPoint, c2 |-> ScalarZero], out |-> NoKey]

\* ElGamalCiphertext::encrypt(&message, &pk); r is what the call draws
ElGamalEncryptCall(r) ==
  /\ hybrid.pc = "keygen"
  /\ hybrid' = [hybrid EXCEPT !.pc = "encrypted", !.r = r,
                              !.ct = ElGamalEncrypt(hybrid.message, PublicKey(hybrid.sk), r)]
  /\ UNCHANGED <<msg, status, last, prev, layers, signed, ops>>

\* ciphertext.decrypt(&sk)
ElGamalDecryptCall ==
  /\ hybrid.pc = "encrypted"
  /\ hybrid' = [hybrid EXCEPT !.pc = "decrypted",
                              !.out = ElGamalDecrypt(hybrid.ct, hybrid.sk)]
  /\ UNCHANGED <<msg, status, last, prev, layers, signed, ops>>

NextElGamal ==
  \/ \E r \in EphemeralScalars : ElGamalEncryptCall(r)
  \/ ElGamalDecryptCall

SpecElGamal == InitElGamal /\ [][NextElGamal]_vars

\* ------------------------------------------------------------------------
\* SpecSchnorr: one signature and its verification under some public key
\* ------------------------------------------------------------------------

\* the messages signed: the empty one and every message of one byte
SchnorrMessages == {<<>>} \cup {<<b>> : b \in Byte}

\* the public keys a signature is verified under
VerifyKeys == {PublicKey(k) : k \in Keys} \cup {Q - 1}

InitSchnorr ==
  /\ InitEnvelope({MessageNew(0, <<>>, CompressedDefault, CompressedDefault,
                              emty_signature)})
  /\ \E sk \in Keys, message \in SchnorrMessages :
       hybrid = [pc |-> "keygen", sk |-> sk, message |-> message,
                 signature |-> emty_signature, public_key |-> IdentityPoint,
                 verified |-> FALSE]

\* SchnorrSignature::sign(&message, &sk); r is what the call draws
SchnorrSignCall(r) ==
  /\ hybrid.pc = "keygen"
  /\ hybrid' = [hybrid EXCEPT !.pc = "signed",
                              !.signature = SchnorrSign(hybrid.message, hybrid.sk, r)]
  /\ UNCHANGED <<msg, status, last, prev, layers, signed, ops>>

\* SchnorrSignature::verify(&signature, &message, &public_key)
SchnorrVerifyCall(public_key) ==
  /\ hybrid.pc = "signed"
  /\ hybrid' = [hybrid EXCEPT !.pc = "verified", !.public_key = public_key,
                              !.verified = SchnorrVerify(hybrid.signature, hybrid.message,
                                                         public_key)]
  /\ UNCHANGED <<msg, status, last, prev, layers, signed, ops>>

NextSchnorr ==
  \/ \E r \in EphemeralScalars : SchnorrSignCall(r)
  \/ \E public_key \in VerifyKeys : SchnorrVerifyCall(public_key)

SpecSchnorr == InitSchnorr /\ [][NextSchnorr]_vars

\* ------------------------------------------------------------------------
\* SpecScalar: 32 bytes read as a scalar from a private-key file, as c2 of a
\* hybrid ciphertext and as the s of a signature in an envelope's text
\* ------------------------------------------------------------------------

\* 32-byte values with the scalar they are modulo the group order, and whether
\* they are the canonical encoding of it: integers below the group order, the
\* order itself and integers above it; 2^256 - 1 is a multiple of 257
ScalarEncodings ==
  {[bytes |-> LEBytes(v, SCALAR_SIZE), reduced |-> v % Q, canonical |-> v < Q] :
     v \in {0, 1, Q - 1, Q, Q + 3, 2 * Q + 1, 65534}}
  \cup {[bytes |-> AllOnes, reduced |-> 0, canonical |-> FALSE]}

\* the text of an envelope whose signature is written with the bytes r_bytes
\* as "R" and the bytes s_bytes as "s"
EnvelopeTextOfSignature(payload, r_bytes, s_bytes) ==
  CompactJson.version \o DecimalU8(0)
    \o CompactJson.payload \o Base64Encode(payload)
    \o CompactJson.recipient \o Base64Encode(CompressedDefault)
    \o CompactJson.sender \o Base64Encode(CompressedDefault)
    \o CompactJson.signatureR \o Base64Encode(r_bytes)
    \o CompactJson.s \o Base64Encode(s_bytes)
    \o CompactJson.close

InitScalar ==
  /\ InitEnvelope({MessageNew(0, <<>>, CompressedDefault, CompressedDefault,
                              emty_signature)})
  /\ \E enc \in ScalarEncodings, k \in Keys, nonce \in Nonces, n \in 0..MaxExtra :
       hybrid = [pc |-> "bytes", enc |-> enc, point |-> Compress(PublicKey(k)),
                 nonce |-> nonce, rest |-> Filler(n), result |-> Err("none")]

\* KeyPair::from_file on a file that starts with the 32 bytes
ReadPrivateKeyFile ==
  /\ hybrid.pc = "bytes"
  /\ hybrid' = [hybrid EXCEPT !.pc = "key_read",
                              !.result = from_file(hybrid.enc.bytes \o hybrid.rest)]
  /\ UNCHANGED <<msg, status, last, prev, layers, signed, ops>>

\* HybridCiphertext::deserialize of a buffer whose bytes 33 to 64 are the 32 bytes
ParseC2 ==
  /\ hybrid.pc = "bytes"
  /\ hybrid' = [hybrid EXCEPT
       !.pc = "c2_parsed",
       !.result = HybridDeserialize(hybrid.point \o hybrid.enc.bytes \o hybrid.nonce
                                      \o hybrid.rest)]
  /\ UNCHANGED <<msg, status, last, prev, layers, signed, ops>>

\* deserialize_message_from_bytes of the text of an envelope whose signature has
\* the 32 bytes as "s"
ParseEnvelopeS ==
  /\ hybrid.pc = "bytes"
  /\ hybrid' = [hybrid EXCEPT
       !.pc = "s_parsed",
       !.result = deserialize_message_from_bytes(
                    EnvelopeTextOfSignature(hybrid.rest, hybrid.point, hybrid.enc.bytes))]
  /\ UNCHANGED <<msg, status, last, prev, layers, signed, ops>>

NextScalar ==
  \/ ReadPrivateKeyFile
  \/ ParseC2
  \/ ParseEnvelopeS

SpecScalar == InitScalar /\ [][NextScalar]_vars

\* ------------------------------------------------------------------------
\* SpecFailure: encrypt and decrypt on envelopes whose payloads make the calls
\* fail at each of their steps
\* ------------------------------------------------------------------------

\* the wire bytes of the hybrid encryption of plaintext for the key pair 1
WireOf(plaintext) ==
  HybridSerialize(HybridEncrypt(plaintext, PublicKey(1), 1, Zeros(AES_NONCE_SIZE), 1).val)

\* payloads of the envelopes decrypted: no ciphertext, a ciphertext cut to 75
\* bytes, 76 bytes and more with a c1 that is no point, the ciphertexts of a
\* plaintext that is no text, of one that is no envelope, and of an envelope
\* text with a non-canonical s, and the ciphertext of an envelope
FailurePayloads ==
  {<<>>, <<71>>,
   SubSeq(WireOf(EnvelopeText), 1, WireHeaderSize - 1),
   InvalidPointBytes \o SubSeq(WireOf(EnvelopeText), POINT_SIZE + 1,
                               Len(WireOf(EnvelopeText))),
   WireOf(<<200>>),
   WireOf(<<71>>),
   WireOf(EnvelopeTextOfSignature(<<71>>, Compress(PublicKey(1)),
                                  LEBytes(Q + 3, SCALAR_SIZE))),
   WireOf(EnvelopeText)}

InitFailure ==
  /\ InitEnvelope({MessageNew(v, p, o.sender, rcp, o.signature) :
                     v \in {0, U8_MODULUS - 1}, p \in FailurePayloads,
                     o \in Origins, rcp \in Recipients})
  /\ hybrid = NoHybrid

\* message.encrypt(&pk) whose HybridCiphertext::encrypt returned hybrid_ciphertext
EncryptGiven(sk, hybrid_ciphertext, overflow_checks) ==
  /\ status = "running"
  /\ \E res \in {MessageEncryptGiven(msg, PublicKey(sk), hybrid_ciphertext,
                                     overflow_checks)} :
        /\ msg' = res.msg
        /\ status' = IF res.outcome = "panic" THEN "panicked" ELSE "running"
        /\ last' = Call("encrypt", res.outcome, sk)
        /\ layers' = IF res.outcome = "ok"
                     THEN <<[before |-> msg, after |-> res.msg, sk |-> sk]>> \o layers
                     ELSE layers
  /\ prev' = msg
  /\ ops' = ops + 1
  /\ UNCHANGED <<signed, hybrid>>

\* HybridCiphertext::encrypt returns to Message::encrypt the ciphertext, or the
\* error of an AEAD that refused the plaintext
NextFailure ==
  \/ /\ ops < MaxOps
     /\ \E sk \in Keys, draw \in EqualDraws, overflow_checks \in OverflowChecks(msg) :
          \E hybrid_ciphertext \in
               {HybridEncrypt(serialize_message_to_bytes(msg), PublicKey(sk),
                              draw.aes_key, draw.nonce, draw.r),
                Err("Encryption failed")} :
            EncryptGiven(sk, hybrid_ciphertext, overflow_checks)
  \/ /\ ops < MaxOps
     /\ \E sk \in Keys : Decrypt(sk)

SpecFailure == InitFailure /\ [][NextFailure]_vars

\* ------------------------------------------------------------------------
\* SpecTwin: two envelopes with the same payload and other fields that differ,
\* decrypted with the same private key
\* ------------------------------------------------------------------------

\* the payloads the two envelopes share: no ciphertext, the ciphertext of a
\* plaintext that is no envelope, and the ciphertext of an envelope; f and g
\* are version, sender, signature and recipient of the two envelopes, the
\* recipient being the key holder 1 or the key holder 2
InitTwin ==
  /\ \E p \in {<<71>>, WireOf(<<71>>), WireOf(EnvelopeText)},
        f, g \in {[version |-> v, sender |-> o.sender, signature |-> o.signature,
                   recipient |-> Compress(PublicKey(k))] :
                    v \in {0, U8_MODULUS - 1}, o \in Origins, k \in {1, 2}} :
       /\ f # g
       /\ InitEnvelope({MessageNew(f.version, p, f.sender, f.recipient, f.signature)})
       /\ hybrid = [pc |-> "pair",
                    twin |-> MessageNew(g.version, p, g.sender, g.recipient, g.signature),
                    before |-> MessageNew(g.version, p, g.sender, g.recipient,
                                          g.signature),
                    out |-> "none", twin_out |-> "none"]

\* message.decrypt(&sk) on the one envelope and twin.decrypt(&sk) on the other
DecryptBoth(sk) ==
  /\ status = "running"
  /\ hybrid.pc = "pair"
  /\ \E res \in {MessageDecrypt(msg, sk)}, twin_res \in {MessageDecrypt(hybrid.twin, sk)} :
        /\ msg' = res.msg
        /\ last' = Call("decrypt", res.outcome, sk)
        /\ hybrid' = [pc |-> "decrypted", twin |-> twin_res.msg, before |-> hybrid.twin,
                      out |-> res.outcome, twin_out |-> twin_res.outcome]
  /\ prev' = msg
  /\ ops' = ops + 1
  /\ UNCHANGED <<status, layers, signed>>

\* the first envelope may be signed, and verify() may be called on it, before
\* the two are decrypted
NextTwin ==
  \/ /\ hybrid.pc = "pair"
     /\ ops < 1
     /\ \E sk \in Keys, r \in RandScalars : Sign(sk, r)
  \/ /\ hybrid.pc = "pair"
     /\ Verify
  \/ \E sk \in Keys : DecryptBoth(sk)

SpecTwin == InitTwin /\ [][NextTwin]_vars

\* ------------------------------------------------------------------------
\* SpecNested: encrypt and sign calls on one envelope, then the decrypts that
\* undo the encrypts, newest first
\* ------------------------------------------------------------------------

\* at most MaxWrap encrypt and sign calls before the first decrypt
MaxWrap == 3

\* the envelopes wrapped: a one-byte payload, a version that the second encrypt
\* overflows or a version far from it, any sender and signature
InitNested ==
  /\ InitEnvelope({MessageNew(v, <<71>>, o.sender, rcp, o.signature) :
                     v \in {0, U8_MODULUS - 2}, o \in Origins, rcp \in Recipients})
  /\ hybrid = [pc |-> "wrap", new |-> msg]

\* message.decrypt(&sk) with sk the private key of the newest encrypt not yet
\* undone
Unwind ==
  /\ status = "running"
  /\ hybrid.pc \in {"wrap", "unwind"}
  /\ layers # <<>>
  /\ \E res \in {MessageDecrypt(msg, Head(layers).sk)} :
        /\ msg' = res.msg
        /\ last' = Call("decrypt", res.outcome, Head(layers).sk)
        /\ layers' = IF res.outcome = "ok" THEN Tail(layers) ELSE layers
  /\ prev' = msg
  /\ ops' = ops + 1
  /\ hybrid' = [hybrid EXCEPT !.pc = "unwind"]
  /\ UNCHANGED <<status, signed>>

NextNested ==
  \/ /\ hybrid.pc = "wrap"
     /\ ops < MaxWrap
     /\ \E sk \in Keys, draw \in EqualDraws, overflow_checks \in OverflowChecks(msg) :
          Encrypt(sk, draw, overflow_checks)
  \/ /\ hybrid.pc = "wrap"
     /\ ops < MaxWrap
     /\ \E sk \in Keys, r \in RandScalars : Sign(sk, r)
  \/ Unwind
  \/ Verify

SpecNested == InitNested /\ [][NextNested]_vars

\* ------------------------------------------------------------------------
\* Properties of Spec: the calls on one envelope
\* ------------------------------------------------------------------------

\* the last call is decrypt, made on the envelope as the newest encrypt left it,
\* with the private key of that encrypt's public key
DecryptOfEncrypted ==
  /\ last.op = "decrypt"
  /\ last.top # <<>>
  /\ prev = Head(last.top).after
  /\ last.key = Head(last.top).sk

\* C1: for every envelope of version below 255 and every key pair, encrypt(pk)
\* followed by decrypt(sk) succeeds and leaves version, payload, sender,
\* recipient and signature equal to their values before the encrypt
C1_EncryptDecryptRoundTrip ==
  (DecryptOfEncrypted /\ Head(last.top).before.version < U8_MODULUS - 1) =>
    /\ last.outcome = "ok"
    /\ msg = Head(last.top).before

\* an envelope of version 254 with a non-empty payload, an arbitrary sender and
\* an arbitrary signature has come back from encrypt and decrypt
C1_RoundTripDone ==
  /\ DecryptOfEncrypted
  /\ last.outcome = "ok"
  /\ msg.version = U8_MODULUS - 2
  /\ msg.payload # <<>>
  /\ msg.sender = InvalidPointBytes
  /\ msg.signature # emty_signature

\* C3: after a successful encrypt(pk) on an envelope of version v the version is
\* v + 1, the signature is the sentinel, the sender is 32 zero bytes, the
\* recipient is compress(pk) and the payload is the hybrid ciphertext's wire
\* bytes, different from the payload before
C3_EncryptSetsFields ==
  (last.op = "encrypt" /\ last.outcome = "ok") =>
    /\ msg.version = prev.version + 1
    /\ msg.signature = emty_signature
    /\ msg.sender = CompressedDefault
    /\ msg.recipient = Compress(PublicKey(last.key))
    /\ msg.payload # prev.payload
    /\ HybridDeserialize(msg.payload).ok

\* C4: immediately after sign(sk), on a plaintext or an encrypted payload, the
\* sender is compress(sk * Base) and verify() returns true; the signature
\* verifies over the payload under sk * Base
C4_SignThenVerify ==
  /\ last.op = "sign" =>
       /\ msg.sender = Compress(PublicKey(last.key))
       /\ SchnorrVerify(msg.signature, msg.payload, PublicKey(last.key))
       /\ MessageVerify(msg) = "true"
  /\ (last.op = "verify" /\ signed # <<>> /\ prev = signed[1].msg) =>
       last.outcome = "true"

\* verify() has returned true on an envelope signed after it was encrypted
C4_SignedCiphertextVerified ==
  /\ last.op = "verify"
  /\ last.outcome = "true"
  /\ signed # <<>>
  /\ msg = signed[1].msg
  /\ layers # <<>>
  /\ msg.payload = Head(layers).after.payload

\* C7: verify() on an envelope whose sender does not decompress returns false
\* and does not panic
C7_VerifyRejectsInvalidSender ==
  (last.op = "verify" /\ ~Decompress(prev.sender).ok) =>
    /\ last.outcome = "false"
    /\ status = "running"

\* C14: for every envelope reachable through new, encrypt, sign and decrypt,
\* deserialize_message_from_bytes(serialize_message_to_bytes(m)) succeeds and
\* gives m: the same version, payload, recipient, sender and signature
C14_TextRoundTrip ==
  deserialize_message_from_bytes(serialize_message_to_bytes(msg)) = Ok(msg)

\* an encrypted and then signed envelope has the text round trip
C14_SignedCiphertextRoundTrip ==
  /\ last.op = "sign"
  /\ layers # <<>>
  /\ msg.payload = Head(layers).after.payload
  /\ msg.signature # emty_signature
  /\ deserialize_message_from_bytes(serialize_message_to_bytes(msg)).ok

\* C17: encrypt never panics, for any version 0..255: it returns Ok with the
\* one-byte version one more than before (taken modulo 256), or Err with the
\* envelope as it was; at version 255 it neither aborts nor leaves the payload
\* replaced with the other fields not updated
C17_EncryptNeverPanics ==
  last.op = "encrypt" =>
    /\ status = "running"
    /\ last.outcome \in {"ok", "err"}
    /\ last.outcome = "ok" => msg.version = (prev.version + 1) % U8_MODULUS
    /\ last.outcome # "ok" => msg = prev

\* C20: sign(sk) does not fail and changes only signature and sender: version,
\* payload and recipient are as before, and the signature is the Schnorr
\* signature over the payload held at the call, the ciphertext when the
\* envelope was encrypted
C20_SignFrame ==
  last.op = "sign" =>
    /\ last.outcome = "ok"
    /\ status = "running"
    /\ msg.version = prev.version
    /\ msg.payload = prev.payload
    /\ msg.recipient = prev.recipient
    /\ msg.sender = Compress(PublicKey(last.key))
    /\ \E r \in RandScalars :
         /\ msg.signature.R = PointMul(r, RISTRETTO_BASEPOINT_POINT)
         /\ msg.signature.s =
              ScalarAdd(r, ScalarMulScalar(Challenge(msg.signature.R, prev.payload),
                                           last.key))

\* an encrypted envelope was signed with a key that is not zero: sender and
\* signature changed, the ciphertext is the payload signed
C20_CiphertextSigned ==
  /\ last.op = "sign"
  /\ last.key # 0
  /\ layers # <<>>
  /\ prev = Head(layers).after
  /\ msg.payload = prev.payload
  /\ msg.sender # prev.sender
  /\ msg.signature # prev.signature

\* C26: an envelope whose last mutating call was a successful encrypt, with no
\* sign since, has the all-zero sender and the sentinel signature (R = Base,
\* s = 0), and verify() returns false on it for every payload, also when the
\* envelope was validly signed before the encrypt
C26_EncryptedNeverVerifies ==
  /\ (last.op = "encrypt" /\ last.outcome = "ok") =>
       /\ msg.sender = CompressedDefault
       /\ msg.signature = emty_signature
       /\ Decompress(msg.sender) = Ok(IdentityPoint)
       /\ ~SchnorrVerify(msg.signature, msg.payload, IdentityPoint)
       /\ \A payload \in SchnorrMessages :
            MessageVerify([msg EXCEPT !.payload = payload]) = "false"
       /\ MessageVerify(msg) = "false"
  /\ (last.op = "verify" /\ last.top # <<>> /\ prev = Head(last.top).after) =>
       last.outcome = "false"

\* verify() has returned false on an envelope that was signed with a key that is
\* not zero, verified, and was then encrypted
C26_SignedThenEncryptedRefused ==
  /\ last.op = "verify"
  /\ last.outcome = "false"
  /\ last.top # <<>>
  /\ msg = Head(last.top).after
  /\ signed # <<>>
  /\ signed[1].key # 0
  /\ Head(last.top).before = signed[1].msg
  /\ MessageVerify(Head(last.top).before) = "true"

\* ------------------------------------------------------------------------
\* Properties of SpecPipeline
\* ------------------------------------------------------------------------

\* C2: construct, encrypt, sign, write the text format, read it back, verify,
\* decrypt: the text is read back to the same envelope, verify() is true, the
\* decrypt succeeds, and payload and version are the constructed ones
C2_PipelineDelivers ==
  /\ status = "running"
  /\ last.op = "save_load" => (last.outcome = "ok" /\ msg = prev)
  /\ last.op = "verify" => last.outcome = "true"
  /\ last.op = "decrypt" =>
       /\ last.outcome = "ok"
       /\ msg.payload = Head(last.top).before.payload
       /\ msg.version = Head(last.top).before.version

\* the receiver holds the constructed one-byte payload again, the signing key
\* being another key than the recipient's
C2_Delivered ==
  /\ last.op = "decrypt"
  /\ last.outcome = "ok"
  /\ layers = <<>>
  /\ msg.payload = <<71>>
  /\ msg.version = 0
  /\ signed # <<>>
  /\ signed[1].key # last.key

\* ------------------------------------------------------------------------
\* Properties of SpecTamper
\* ------------------------------------------------------------------------

\* the last call is verify, made on the envelope of the last sign with one byte
\* of its payload changed
VerifyOfAlteredPayload ==
  /\ last.op = "verify"
  /\ signed # <<>>
  /\ prev.sender = signed[1].msg.sender
  /\ prev.signature = signed[1].msg.signature
  /\ SingleByteChange(prev.payload, signed[1].msg.payload)

\* C5 as stated: after sign(sk), changing any single byte of the payload makes
\* verify() return false
C5_AlteredPayloadNeverVerifies ==
  VerifyOfAlteredPayload => last.outcome = "false"

\* C5: after sign(sk) with a public key sk * Base that is not the identity,
\* changing any single byte of the payload makes verify() return false
C5_AlteredPayloadFailsUnderProperKey ==
  (VerifyOfAlteredPayload /\ PublicKey(signed[1].key) # IdentityPoint) =>
    last.outcome = "false"

\* verify() has returned false on a signed ciphertext with one byte changed
C5_AlteredPayloadRejected ==
  /\ VerifyOfAlteredPayload
  /\ PublicKey(signed[1].key) # IdentityPoint
  /\ last.outcome = "false"
  /\ layers # <<>>

\* the last call is verify, made on the envelope of the last sign with another
\* scalar as signature.s
VerifyOfAlteredS ==
  /\ last.op = "verify"
  /\ signed # <<>>
  /\ prev.payload = signed[1].msg.payload
  /\ prev.sender = signed[1].msg.sender
  /\ prev.signature.R = signed[1].msg.signature.R
  /\ prev.signature.s # signed[1].msg.signature.s

\* C6: after sign, replacing signature.s by any other scalar makes verify()
\* return false: (R, s') does not verify where (R, s) does
C6_AlteredSNeverVerifies ==
  VerifyOfAlteredS =>
    /\ last.outcome = "false"
    /\ SchnorrVerify(signed[1].msg.signature, prev.payload, PublicKey(signed[1].key))
    /\ ~SchnorrVerify(prev.signature, prev.payload, PublicKey(signed[1].key))

\* verify() has returned false on a signed envelope with s replaced
C6_AlteredSRejected ==
  /\ VerifyOfAlteredS
  /\ last.outcome = "false"

\* the last call is decrypt with the recipient's private key, made on the
\* envelope of the newest encrypt with one byte of its payload changed
DecryptOfAlteredPayload ==
  /\ last.op = "decrypt"
  /\ last.top # <<>>
  /\ last.key = Head(last.top).sk
  /\ SingleByteChange(prev.payload, Head(last.top).after.payload)

\* C10 as stated: if any byte of the payload of an encrypted envelope is changed,
\* decrypt with the recipient's private key returns an error
C10_AlteredCiphertextNeverDecrypts ==
  DecryptOfAlteredPayload => last.outcome = "err"

\* C10: if any byte of the payload of an envelope encrypted for a public key
\* that is not the identity is changed, decrypt with the recipient's private key
\* returns an error and leaves the envelope as it was
C10_AlteredCiphertextFailsUnderProperKey ==
  (DecryptOfAlteredPayload /\ PublicKey(last.key) # IdentityPoint) =>
    /\ last.outcome = "err"
    /\ msg = prev

\* decrypt has returned an error on a ciphertext whose c1 has one byte changed
\* and still is a point
C10_AlteredC1Rejected ==
  /\ DecryptOfAlteredPayload
  /\ PublicKey(last.key) # IdentityPoint
  /\ last.outcome = "err"
  /\ prev.payload[1] # Head(last.top).after.payload[1]
  /\ Decompress(SubSeq(prev.payload, 1, POINT_SIZE)).ok

\* ------------------------------------------------------------------------
\* Properties of SpecHybrid
\* ------------------------------------------------------------------------

\* C8: for every key pair and every payload, the empty one included, encrypt(p,
\* pk) followed by decrypt(sk) returns p, also when the ciphertext goes through
\* serialize and deserialize in between (and deserialize accepts what serialize
\* wrote)
C8_HybridRoundTrip ==
  /\ hybrid.pc # "failed"
  /\ (hybrid.pc = "decrypted" /\ hybrid.dec_sk = hybrid.sk) =>
       hybrid.result = Ok(hybrid.payload)

\* the empty payload has come back through serialize and deserialize
C8_EmptyPayloadThroughWire ==
  /\ hybrid.pc = "decrypted"
  /\ hybrid.via = "deserialized"
  /\ hybrid.dec_sk = hybrid.sk
  /\ hybrid.payload = <<>>
  /\ hybrid.result = Ok(<<>>)

\* the ciphertext was decrypted with the private key of another key pair
WrongKeyDecrypt ==
  /\ hybrid.pc = "decrypted"
  /\ hybrid.dec_sk # hybrid.sk

\* the ciphertext as the payload of an envelope
HybridEnvelope ==
  MessageNew(1, HybridSerialize(hybrid.ct), CompressedDefault,
             Compress(PublicKey(hybrid.sk)), emty_signature)

\* C9 as stated: decrypting under B's private key a ciphertext made for A's
\* public key returns an error, the ElGamal layer returning a scalar different
\* from the transported key
C9_WrongKeyNeverDecrypts ==
  WrongKeyDecrypt =>
    /\ ~hybrid.result.ok
    /\ hybrid.key_out # hybrid.draw.aes_key

\* C9: when the ephemeral scalar r of the encryption is not zero, decrypting
\* under B's private key a ciphertext made for A's public key returns an error,
\* the ElGamal layer returning a scalar different from the transported key, and
\* Message::decrypt of an envelope holding the ciphertext returns an error
C9_WrongKeyFailsUnlessZeroR ==
  (WrongKeyDecrypt /\ hybrid.draw.r # ScalarZero) =>
    /\ ~hybrid.result.ok
    /\ hybrid.key_out # hybrid.draw.aes_key
    /\ MessageDecrypt(HybridEnvelope, hybrid.dec_sk).outcome = "err"

\* a wrong key was refused on the ciphertext of an envelope's text
C9_WrongKeyRefused ==
  /\ WrongKeyDecrypt
  /\ hybrid.draw.r # ScalarZero
  /\ hybrid.payload = EnvelopeText
  /\ ~hybrid.result.ok

\* ------------------------------------------------------------------------
\* Properties of SpecWire
\* ------------------------------------------------------------------------

\* the first 32 bytes of the buffer are an encoding of no point
BufferHoldsNoPoint ==
  /\ Len(hybrid.wire) >= POINT_SIZE
  /\ SubSeq(hybrid.wire, 1, POINT_SIZE) \in {InvalidPointBytes, AllOnes}

\* C11: deserialize returns an error for every buffer of 0 to 75 bytes
C11_ShortBufferIsAnError ==
  (hybrid.pc = "deserialized" /\ Len(hybrid.wire) < WireHeaderSize) =>
    /\ ~hybrid.result.ok
    /\ Len(hybrid.wire) < POINT_SIZE + SCALAR_SIZE =>
         hybrid.result.err = "Not enough bytes to deserialize ElGamalCiphertext"

\* a buffer of 75 bytes that starts with a point was refused for its length
C11_SeventyFiveBytesRefused ==
  /\ hybrid.pc = "deserialized"
  /\ Len(hybrid.wire) = WireHeaderSize - 1
  /\ ~BufferHoldsNoPoint
  /\ hybrid.result = Err("Not enough bytes to deserialize AESCiphertext")

\* C12 as stated: deserialize returns a HybridCiphertext for every buffer of at
\* least 76 bytes; its only failure is the one of a buffer too short
C12_LongBufferAlwaysParses ==
  (hybrid.pc = "deserialized" /\ Len(hybrid.wire) >= WireHeaderSize) => hybrid.result.ok

\* C12: deserialize returns a HybridCiphertext for every buffer of at least 76
\* bytes whose first 32 bytes are a compressed point, whatever the other bytes
\* are; it fails on a buffer of less than 76 bytes and on a buffer whose first
\* 32 bytes are no point, and on no other
C12_LongBufferParsesUnlessNoPoint ==
  hybrid.pc = "deserialized" =>
    (hybrid.result.ok <=> (Len(hybrid.wire) >= WireHeaderSize /\ ~BufferHoldsNoPoint))

\* a buffer of more than 76 bytes with a non-canonical c2 was parsed, c2 reduced
C12_NonCanonicalScalarParsed ==
  /\ hybrid.pc = "deserialized"
  /\ hybrid.from = "buffer"
  /\ Len(hybrid.wire) > WireHeaderSize
  /\ SubSeq(hybrid.wire, POINT_SIZE + 1, POINT_SIZE + SCALAR_SIZE) = AllOnes
  /\ hybrid.result.ok
  /\ hybrid.result.val.elgamal_ciphertext.c2 \in Scalars

\* C13: serialize writes compress(c1), c2, the nonce and the AEAD ciphertext in
\* this order, 76 bytes plus the ciphertext; deserialize of these bytes gives
\* the same c1, c2, nonce and ciphertext
C13_WireLayoutRoundTrip ==
  /\ hybrid.pc = "serialized" \/ (hybrid.pc = "deserialized" /\ hybrid.from = "serialized") =>
       /\ Len(hybrid.wire) = 76 + Len(hybrid.ct.aes_ciphertext.ciphertext)
       /\ SubSeq(hybrid.wire, 1, 32) = Compress(hybrid.ct.elgamal_ciphertext.c1)
       /\ SubSeq(hybrid.wire, 33, 64) = ScalarToBytes(hybrid.ct.elgamal_ciphertext.c2)
       /\ SubSeq(hybrid.wire, 65, 76) = hybrid.ct.aes_ciphertext.nonce
       /\ Slice(hybrid.wire, 77, Len(hybrid.wire)) = hybrid.ct.aes_ciphertext.ciphertext
  /\ (hybrid.pc = "deserialized" /\ hybrid.from = "serialized") =>
       hybrid.result = Ok(hybrid.ct)

\* a HybridCiphertext with a two-byte c2 and a non-empty AEAD ciphertext has
\* come back from its wire bytes
C13_ValueCameBack ==
  /\ hybrid.pc = "deserialized"
  /\ hybrid.from = "serialized"
  /\ hybrid.ct.elgamal_ciphertext.c2 = Q - 1
  /\ hybrid.ct.aes_ciphertext.ciphertext # <<>>
  /\ hybrid.result = Ok(hybrid.ct)

\* C16: reading a public-key file, parsing a signature's R and parsing c1 of a
\* hybrid ciphertext return an error when the 32 bytes are no compressed point,
\* and the point of the encoding when they are one
C16_NoPointIsAnError ==
  (hybrid.pc \in {"key_read", "signature_parsed", "deserialized"}
     /\ hybrid.from = "buffer" /\ Len(hybrid.wire) >= POINT_SIZE) =>
    /\ BufferHoldsNoPoint => ~hybrid.result.ok
    /\ (hybrid.pc = "key_read" /\ ~BufferHoldsNoPoint) =>
         /\ hybrid.result.ok
         /\ Compress(hybrid.result.val) = SubSeq(hybrid.wire, 1, POINT_SIZE)

\* a signature whose R is no point was refused
C16_SignatureRefused ==
  /\ hybrid.pc = "signature_parsed"
  /\ BufferHoldsNoPoint
  /\ SubSeq(hybrid.wire, POINT_SIZE + 1, POINT_SIZE + SCALAR_SIZE) = ScalarToBytes(1)
  /\ hybrid.result = Err("Failed to decompress RistrettoPoint")

\* ------------------------------------------------------------------------
\* Properties of SpecRepeat
\* ------------------------------------------------------------------------

\* the pairs of encryptions made so far
RunPairs ==
  IF hybrid.pc = "repeat"
  THEN {p \in (1..Len(hybrid.runs)) \X (1..Len(hybrid.runs)) : p[1] < p[2]}
  ELSE {}

\* C15 as stated: any two encryptions of the same plaintext under the same
\* public key differ in c1, in c2, in the nonce and in the AEAD ciphertext
C15_RepeatedEncryptionsDiffer ==
  \A p \in RunPairs :
    LET a == hybrid.runs[p[1]].ct
        b == hybrid.runs[p[2]].ct
    IN /\ a.elgamal_ciphertext.c1 # b.elgamal_ciphertext.c1
       /\ a.elgamal_ciphertext.c2 # b.elgamal_ciphertext.c2
       /\ a.aes_ciphertext.nonce # b.aes_ciphertext.nonce
       /\ a.aes_ciphertext.ciphertext # b.aes_ciphertext.ciphertext

\* C15: two encryptions of the same plaintext under the same public key differ
\* in c1 when their ephemeral scalars differ, in the nonce when their drawn
\* nonces differ, in c2 when the ephemeral scalars are equal and the drawn AES
\* keys differ, and so in their wire bytes in each of these cases; with the
\* same three draws they are the same ciphertext
C15_EncryptionsDifferAsDrawsDo ==
  \A p \in RunPairs :
    LET x == hybrid.runs[p[1]]
        y == hybrid.runs[p[2]]
    IN /\ x.draw.r # y.draw.r =>
            x.ct.elgamal_ciphertext.c1 # y.ct.elgamal_ciphertext.c1
       /\ x.draw.nonce # y.draw.nonce =>
            x.ct.aes_ciphertext.nonce # y.ct.aes_ciphertext.nonce
       /\ (x.draw.r = y.draw.r /\ x.draw.aes_key # y.draw.aes_key) =>
            x.ct.elgamal_ciphertext.c2 # y.ct.elgamal_ciphertext.c2
       /\ x.draw # y.draw => HybridSerialize(x.ct) # HybridSerialize(y.ct)
       /\ x.draw = y.draw => x.ct = y.ct

\* two encryptions of an envelope's text with three different draws differ in
\* c1 and in the nonce
C15_TwoDifferentEncryptions ==
  /\ hybrid.pc = "repeat"
  /\ Len(hybrid.runs) = 2
  /\ hybrid.payload = EnvelopeText
  /\ hybrid.runs[1].draw.r # hybrid.runs[2].draw.r
  /\ hybrid.runs[1].draw.nonce # hybrid.runs[2].draw.nonce
  /\ hybrid.runs[1].draw.aes_key # hybrid.runs[2].draw.aes_key
  /\ hybrid.runs[1].ct.elgamal_ciphertext.c1 # hybrid.runs[2].ct.elgamal_ciphertext.c1
  /\ hybrid.runs[1].ct.aes_ciphertext.nonce # hybrid.runs[2].ct.aes_ciphertext.nonce

\* ------------------------------------------------------------------------
\* Properties of SpecReuse
\* ------------------------------------------------------------------------

\* the AEAD key and the nonce of an encryption: the key the call generated, as
\* 32 bytes, and the nonce its ciphertext carries
AeadUse(run) ==
  [key |-> scalar_to_aes_key(run.draw.aes_key), nonce |-> run.ct.aes_ciphertext.nonce]

\* the AEAD ciphertext of the encryption was made under its AeadUse, which is
\* the key the call generated and the nonce it drew, and this key is the one
\* its ElGamal ciphertext transports
UsesItsOwnKeyOnce(run) ==
  /\ run.ct.aes_ciphertext.nonce = run.draw.nonce
  /\ GcmOpen(AeadUse(run).key, AeadUse(run).nonce, run.ct.aes_ciphertext.ciphertext)
       = Ok(hybrid.payload)
  /\ ElGamalDecrypt(run.ct.elgamal_ciphertext, hybrid.sk) = run.draw.aes_key

\* C23 as stated: across any sequence of hybrid encryptions no (AEAD key,
\* nonce) pair is used for two AEAD encryptions, and the key of a call is never
\* used by a later call
C23_NoKeyNoncePairTwice ==
  \A p \in RunPairs :
    /\ AeadUse(hybrid.runs[p[1]]) # AeadUse(hybrid.runs[p[2]])
    /\ AeadUse(hybrid.runs[p[1]]).key # AeadUse(hybrid.runs[p[2]]).key

\* C23: each hybrid encryption uses the key it generated for exactly one AEAD
\* encryption, with the nonce it drew; two encryptions use the same (AEAD key,
\* nonce) pair exactly when they drew the same key and the same nonce, and the
\* same key exactly when they drew the same key
C23_KeyNoncePairsRepeatOnlyWithDraws ==
  /\ hybrid.pc = "repeat" =>
       \A i \in 1..Len(hybrid.runs) : UsesItsOwnKeyOnce(hybrid.runs[i])
  /\ \A p \in RunPairs :
       LET x == hybrid.runs[p[1]]
           y == hybrid.runs[p[2]]
       IN /\ AeadUse(x).key = AeadUse(y).key <=> x.draw.aes_key = y.draw.aes_key
          /\ AeadUse(x) = AeadUse(y) <=>
               (x.draw.aes_key = y.draw.aes_key /\ x.draw.nonce = y.draw.nonce)

\* two encryptions of a one-byte plaintext that drew the same nonce and
\* different keys: each AEAD ciphertext opens under its own key only
C23_SameNonceOtherKey ==
  /\ hybrid.pc = "repeat"
  /\ Len(hybrid.runs) = 2
  /\ hybrid.payload = <<71>>
  /\ hybrid.runs[1].draw.nonce = hybrid.runs[2].draw.nonce
  /\ hybrid.runs[1].draw.aes_key # hybrid.runs[2].draw.aes_key
  /\ AeadUse(hybrid.runs[1]) # AeadUse(hybrid.runs[2])
  /\ UsesItsOwnKeyOnce(hybrid.runs[2])
  /\ ~GcmOpen(AeadUse(hybrid.runs[1]).key, AeadUse(hybrid.runs[2]).nonce,
              hybrid.runs[2].ct.aes_ciphertext.ciphertext).ok

\* ------------------------------------------------------------------------
\* Properties of SpecElGamal
\* ------------------------------------------------------------------------

\* C18: for every key pair, every message scalar and every ephemeral scalar r,
\* decrypt(encrypt(m, pk), sk) is m, and r * pk is sk * c1
C18_ElGamalRoundTrip ==
  /\ hybrid.pc \in {"encrypted", "decrypted"} =>
       PointMul(hybrid.r, PublicKey(hybrid.sk)) = PointMul(hybrid.sk, hybrid.ct.c1)
  /\ hybrid.pc = "decrypted" => hybrid.out = hybrid.message

\* the scalar 1 has come back from a ciphertext whose mask is not the one of the
\* identity
C18_SmallScalarCameBack ==
  /\ hybrid.pc = "decrypted"
  /\ hybrid.message = 1
  /\ hybrid.out = 1
  /\ PointMul(hybrid.sk, hybrid.ct.c1) # IdentityPoint
  /\ hybrid.ct.c2 # hybrid.message

\* ------------------------------------------------------------------------
\* Properties of SpecSchnorr
\* ------------------------------------------------------------------------

\* the signature was verified under a public key that is not the signer's
VerifiedUnderOtherKey ==
  /\ hybrid.pc = "verified"
  /\ hybrid.public_key # PublicKey(hybrid.sk)

\* C19 as stated: a signature made with sk1 does not verify under a public key
\* different from sk1 * Base, also when the challenge e is 0
C19_OtherKeyNeverVerifies ==
  VerifiedUnderOtherKey => ~hybrid.verified

\* C19: a signature made with sk1 does not verify under a public key different
\* from sk1 * Base when the challenge e = H(R || m) is not 0; when e is 0 it
\* verifies under every public key
C19_OtherKeyFailsUnlessZeroChallenge ==
  VerifiedUnderOtherKey =>
    (hybrid.verified <=> Challenge(hybrid.signature.R, hybrid.message) = ScalarZero)

\* a signature with a challenge that is not 0 was refused under another key
C19_OtherKeyRefused ==
  /\ VerifiedUnderOtherKey
  /\ Challenge(hybrid.signature.R, hybrid.message) # ScalarZero
  /\ hybrid.sk # 0
  /\ hybrid.message # <<>>
  /\ ~hybrid.verified

\* ------------------------------------------------------------------------
\* Properties of SpecNested
\* ------------------------------------------------------------------------

\* m is as a sign call leaves an envelope: the sender is a signer's public key
\* and the signature is one this signer makes over the payload
SignedEnvelope(m) ==
  \E sk \in Keys, r \in RandScalars :
    /\ m.sender = Compress(PublicKey(sk))
    /\ m.signature = SchnorrSign(m.payload, sk, r)

\* the last call is the decrypt that undoes the newest encrypt
UnwindOfNewest ==
  /\ last.op = "decrypt"
  /\ last.top # <<>>
  /\ last.key = Head(last.top).sk
  /\ prev.payload = Head(last.top).after.payload

\* each decrypt with the matching private key, newest encrypt first, succeeds
\* and restores the envelope that existed just before that encrypt, signature
\* and sender included; a signed envelope restored this way verifies
DecryptsRestoreInStackOrder ==
  UnwindOfNewest =>
    /\ last.outcome = "ok"
    /\ msg = Head(last.top).before
    /\ layers = Tail(last.top)
    /\ SignedEnvelope(Head(last.top).before) => MessageVerify(msg) = "true"

\* C21: for any sequence of encrypt and sign calls, after k encrypts the
\* version is the initial version plus k, and each decrypt with the matching
\* private key, newest encrypt first, restores exactly the envelope that
\* existed just before the corresponding encrypt; sign, encrypt, decrypt gives
\* an envelope on which verify() is true
C21_NestedTransformsReverse ==
  /\ (hybrid.pc = "wrap" /\ last.op \in {"new", "encrypt", "sign"}) =>
       /\ status = "running"
       /\ msg.version = hybrid.new.version + Len(layers)
  /\ DecryptsRestoreInStackOrder

\* the same for the envelopes whose initial version the encrypts do not take
\* past 255
C21_NestedReverseBelowOverflow ==
  /\ (hybrid.pc = "wrap" /\ last.op \in {"new", "encrypt", "sign"}
        /\ hybrid.new.version + MaxWrap < U8_MODULUS) =>
       /\ status = "running"
       /\ msg.version = hybrid.new.version + Len(layers)
  /\ DecryptsRestoreInStackOrder

\* sign, encrypt, encrypt, decrypt, decrypt has given back the signed envelope,
\* which verifies
C21_TwoLayersUndone ==
  /\ UnwindOfNewest
  /\ last.outcome = "ok"
  /\ ops = 5
  /\ layers = <<>>
  /\ msg.version = hybrid.new.version
  /\ SignedEnvelope(msg)
  /\ msg.sender # hybrid.new.sender
  /\ MessageVerify(msg) = "true"

\* ------------------------------------------------------------------------
\* Properties of SpecScalar
\* ------------------------------------------------------------------------

C24_ErrorLeavesEnvelope ==
  (last.op \in {"encrypt", "decrypt"} /\ last.outcome = "err") =>
    /\ msg.version = prev.version
    /\ msg.payload = prev.payload
    /\ msg.sender = prev.sender
    /\ msg.recipient = prev.recipient
    /\ msg.signature = prev.signature
    /\ status = "running"

\* decrypt has failed at its last step, on a plaintext that is no well-formed
\* envelope, after the payload was parsed and the AEAD ciphertext opened
C24_FailedOnRecoveredPlaintext ==
  /\ last.op = "decrypt"
  /\ last.outcome = "err"
  /\ HybridDeserialize(prev.payload).ok
  /\ HybridDecrypt(HybridDeserialize(prev.payload).val, last.key).ok
  /\ prev.sender = InvalidPointBytes
  /\ msg = prev

\* ------------------------------------------------------------------------
\* Properties of SpecTwin
\* ------------------------------------------------------------------------

\* C25 as stated: two envelopes with the same payload and different version,
\* sender, recipient or signature give the same outcome and the same resulting
\* fields under decrypt with the same private key
C25_DecryptDependsOnPayloadOnly ==
  hybrid.pc = "decrypted" =>
    /\ hybrid.out = hybrid.twin_out
    /\ msg = hybrid.twin

\* C25: two envelopes with the same payload and different version, sender,
\* recipient or signature give the same outcome under decrypt with the same
\* private key; when it is Ok their resulting fields are the same, those of the
\* recovered envelope, and when it is an error each envelope is left as it was
C25_SameOutcomeSameFieldsOnSuccess ==
  hybrid.pc = "decrypted" =>
    /\ prev.payload = hybrid.before.payload
    /\ hybrid.out = hybrid.twin_out
    /\ hybrid.out = "ok" => msg = hybrid.twin
    /\ hybrid.out = "err" => (msg = prev /\ hybrid.twin = hybrid.before)

\* a signed envelope addressed to the key holder and an unsigned one addressed
\* to someone else, of another version, were decrypted to the same envelope
C25_TwinsDecryptedAlike ==
  /\ hybrid.pc = "decrypted"
  /\ hybrid.out = "ok"
  /\ signed # <<>>
  /\ prev.recipient = Compress(PublicKey(last.key))
  /\ hybrid.before.recipient # Compress(PublicKey(last.key))
  /\ hybrid.before.version # prev.version
  /\ hybrid.before.signature # prev.signature
  /\ msg = hybrid.twin

====
